---- MODULE Spec2Model ----
(***************************************************************************)
(* x402 auction MCP server: the tool handlers (handlers.ts, structured-    *)
(* response revision), the API client (api.ts, with and without calm       *)
(* tokens) and the tool router (index.ts, formatError revision).           *)
(*                                                                         *)
(* JavaScript values are modelled as follows.  A string argument is a      *)
(* record [t, s]: t is the typeof tag, s the characters.  A number         *)
(* argument is a record [t, n]: t is "number" (the integer n), "frac" (the  *)
(* non-integer n + 0.5), "nan", "inf", "ninf" or a non-number tag.         *)
(* Protocol strings of answer bodies (status, error, message ...) are      *)
(* TLA+ strings, Absent standing for a missing field.                      *)
(***************************************************************************)
EXTENDS Integers, Sequences, FiniteSets, TLC

VARIABLES inv, CALM_TOKENS, now, isShuttingDown, process

vars == <<inv, CALM_TOKENS, now, isShuttingDown, process>>

(***************************************************************************)
(* constants.ts                                                            *)
(***************************************************************************)
MIN_TON == 1
MAX_TON == 100
DEFAULT_BIDS_LIMIT == 20
MAX_BIDS_LIMIT == 100

OK == 200
PAYMENT_REQUIRED == 402
NOT_FOUND == 404
GONE == 410
RATE_LIMITED == 420

AUCTION_INFO == "/auction/info"
AUCTION_BID == "/auction/bid"
AUCTION_MY_BID == "/auction/my-bid"
AUCTION_BIDS == "/auction/bids"

Endpoints == {AUCTION_INFO, AUCTION_BID, AUCTION_MY_BID, AUCTION_BIDS}

(***************************************************************************)
(* Bounds of the model.                                                    *)
(***************************************************************************)
MaxClock == 2
MaxSignals == 2

(***************************************************************************)
(* JavaScript values.                                                      *)
(***************************************************************************)
Absent == "undefined"
AbsentNum == 0 - 1

Truthy(x) == x # Absent /\ x # ""

Or(a, b) == IF Truthy(a) THEN a ELSE b

Str(s) == [t |-> "string", s |-> s]
UndefinedStr == [t |-> "undefined", s |-> <<>>]
NumberAsStr == [t |-> "number", s |-> <<>>]
\* null where a string is expected
NullStr == [t |-> "object", s |-> <<>>]

Num(n) == [t |-> "number", n |-> n]
\* the number n + 0.5
Frac(n) == [t |-> "frac", n |-> n]
NaN == [t |-> "nan", n |-> 0]
Infinity == [t |-> "inf", n |-> 0]
NegInfinity == [t |-> "ninf", n |-> 0]
UndefinedNum == [t |-> "undefined", n |-> 0]
StringAsNum == [t |-> "string", n |-> 0]

\* typeof x === 'number' holds of NaN and Infinity too
TypeofNumber(x) == x.t \in {"number", "frac", "nan", "inf", "ninf"}

\* x < k and x > k for a JavaScript number x and an integer k
NumLess(x, k) == (x.t \in {"number", "frac"} /\ x.n < k) \/ x.t = "ninf"
NumGreater(x, k) ==
    (x.t = "number" /\ x.n > k) \/ (x.t = "frac" /\ x.n >= k) \/ x.t = "inf"

\* undefined < k is false
Less(n, k) == n # AbsentNum /\ n < k

Whitespace == {" ", "\t"}

RECURSIVE TrimStart(_)
TrimStart(s) ==
    IF s = <<>> THEN <<>>
    ELSE IF Head(s) \in Whitespace THEN TrimStart(Tail(s)) ELSE s

RECURSIVE TrimEnd(_)
TrimEnd(s) ==
    IF s = <<>> THEN <<>>
    ELSE IF s[Len(s)] \in Whitespace THEN TrimEnd(SubSeq(s, 1, Len(s) - 1)) ELSE s

\* String.prototype.trim
Trim(s) == TrimEnd(TrimStart(s))

DigitChars == <<"0", "1", "2", "3", "4", "5", "6", "7", "8", "9">>

RECURSIVE FormatNat(_)
FormatNat(n) ==
    IF n < 10 THEN <<DigitChars[n + 1]>>
    ELSE FormatNat(n \div 10) \o <<DigitChars[(n % 10) + 1]>>

\* `${n}` of a template literal, for the numbers that pass validation
FormatNumber(x) ==
    IF x.t = "number" THEN FormatNat(x.n)
    ELSE IF x.t = "frac" THEN FormatNat(x.n) \o <<".", "5">>
    ELSE IF x.t = "inf" THEN <<"I", "n", "f">>
    ELSE <<"N", "a", "N">>

RECURSIVE EncodeChars(_)
EncodeChars(s) ==
    IF s = <<>> THEN <<>>
    ELSE (IF Head(s) = " " THEN <<"%", "2", "0">>
          ELSE IF Head(s) = "\t" THEN <<"%", "0", "9">>
          ELSE <<Head(s)>>) \o EncodeChars(Tail(s))

encodeURIComponent(v) ==
    IF v.t = "string" THEN EncodeChars(v.s)
    ELSE <<"u", "n", "d", "e", "f", "i", "n", "e", "d">>

Merge(r1, r2) ==
    [f \in DOMAIN r1 \cup DOMAIN r2 |-> IF f \in DOMAIN r2 THEN r2[f] ELSE r1[f]]

(***************************************************************************)
(* IEEE 754 double arithmetic, as far as parseFloat(text) * 1e9, Math.floor *)
(* and the comparison of two parsed numbers need it.  A natural number is  *)
(* a sequence of limbs of 15 bits, least significant first, without        *)
(* leading zero limbs; a non-negative double is [nan, m, e], the value     *)
(* m * 2^e with a mantissa m of at most 53 bits.                           *)
(***************************************************************************)
MantissaBits == 53
LimbBits == 15
Limb == 32768

RECURSIVE Pow(_, _)
Pow(b, n) == IF n = 0 THEN 1 ELSE b * Pow(b, n - 1)

RECURSIVE NatOf(_)
NatOf(n) == IF n = 0 THEN <<>> ELSE <<n % Limb>> \o NatOf(n \div Limb)

RECURSIVE StripZeros(_)
StripZeros(b) ==
    IF b = <<>> THEN <<>>
    ELSE IF b[Len(b)] = 0 THEN StripZeros(SubSeq(b, 1, Len(b) - 1)) ELSE b

\* b * k + carry, for k below Limb
RECURSIVE MulSmall(_, _, _)
MulSmall(b, k, carry) ==
    IF b = <<>> THEN NatOf(carry)
    ELSE LET v == Head(b) * k + carry
         IN  <<v % Limb>> \o MulSmall(Tail(b), k, v \div Limb)

\* quotient and remainder of b by d, for d below Limb; q keeps its leading
\* zero limbs
RECURSIVE DivSmall(_, _)
DivSmall(b, d) ==
    IF b = <<>> THEN [q |-> <<>>, r |-> 0]
    ELSE LET hi == DivSmall(Tail(b), d)
             cur == hi.r * Limb + Head(b)
         IN  [q |-> <<cur \div d>> \o hi.q, r |-> cur % d]

RECURSIVE SmallBitLen(_)
SmallBitLen(n) == IF n = 0 THEN 0 ELSE 1 + SmallBitLen(n \div 2)

BitLen(b) == IF b = <<>> THEN 0 ELSE (Len(b) - 1) * LimbBits + SmallBitLen(b[Len(b)])

\* b * 2^t
ShiftLeft(b, t) ==
    IF b = <<>> THEN <<>>
    ELSE [i \in 1..(t \div LimbBits) |-> 0]
         \o StripZeros(MulSmall(b, Pow(2, t % LimbBits), 0))

\* floor(b / 2^t), and whether a non-zero bit was dropped
ShiftRight(b, t) ==
    LET limbs == IF t \div LimbBits > Len(b) THEN Len(b) ELSE t \div LimbBits
        div == DivSmall(SubSeq(b, limbs + 1, Len(b)), Pow(2, t % LimbBits))
    IN  [q |-> StripZeros(div.q),
         sticky |-> div.r # 0 \/ \E i \in 1..limbs : b[i] # 0]

\* floor(b / 10^d), and whether the division left a remainder
RECURSIVE DivPow10(_, _)
DivPow10(b, d) ==
    IF d = 0 THEN [q |-> b, sticky |-> FALSE]
    ELSE LET div == DivSmall(b, 10)
             rest == DivPow10(StripZeros(div.q), d - 1)
         IN  [q |-> rest.q, sticky |-> rest.sticky \/ div.r # 0]

NaNDouble == [nan |-> TRUE, m |-> <<>>, e |-> 0]

\* the double nearest to b * 2^e (ties to even); sticky says that b has lost
\* non-zero bits below its last one
RoundToDouble(b, sticky, e) ==
    IF BitLen(b) <= MantissaBits THEN [nan |-> FALSE, m |-> b, e |-> e]
    ELSE LET t == BitLen(b) - MantissaBits
             above == ShiftRight(b, t - 1)
             roundBit == above.q[1] % 2
             kept == ShiftRight(above.q, 1).q
             up == roundBit = 1 /\ (sticky \/ above.sticky \/ kept[1] % 2 = 1)
             m == IF up THEN StripZeros(MulSmall(kept, 1, 1)) ELSE kept
         IN  IF BitLen(m) > MantissaBits
             THEN [nan |-> FALSE, m |-> ShiftRight(m, 1).q, e |-> e + t + 1]
             ELSE [nan |-> FALSE, m |-> m, e |-> e + t]

Digit(c) == CHOOSE i \in 0..9 : DigitChars[i + 1] = c

IsDigit(c) == \E i \in 1..10 : DigitChars[i] = c

\* the longest prefix of s made of digits
RECURSIVE DigitPrefix(_)
DigitPrefix(s) ==
    IF s = <<>> \/ ~IsDigit(Head(s)) THEN <<>>
    ELSE <<Head(s)>> \o DigitPrefix(Tail(s))

RECURSIVE DigitsValue(_)
DigitsValue(s) ==
    IF s = <<>> THEN 0 ELSE DigitsValue(SubSeq(s, 1, Len(s) - 1)) * 10 + Digit(s[Len(s)])

\* the decimal number a text starts with: [ok, k, d] for k / 10^d
ParseDecimal(s) ==
    LET int == DigitPrefix(s)
        rest == SubSeq(s, Len(int) + 1, Len(s))
        frac == IF rest # <<>> /\ Head(rest) = "." THEN DigitPrefix(Tail(rest)) ELSE <<>>
    IN  [ok |-> int \o frac # <<>>, k |-> DigitsValue(int \o frac), d |-> Len(frac)]

\* parseFloat of a text without sign or exponent, up to 9 digits in all
parseFloat(v) ==
    IF v.t # "string" THEN NaNDouble
    ELSE LET dec == ParseDecimal(TrimStart(v.s))
             shift == 64 + 4 * dec.d
             div == DivPow10(ShiftLeft(NatOf(dec.k), shift), dec.d)
         IN  IF ~dec.ok THEN NaNDouble
             ELSE RoundToDouble(div.q, div.sticky, 0 - shift)

\* x * 1e9 in double arithmetic; 10^9 = 31250 * 32000
TimesE9(x) ==
    IF x.nan THEN NaNDouble
    ELSE RoundToDouble(StripZeros(MulSmall(MulSmall(x.m, 31250, 0), 32000, 0)),
                       FALSE, x.e)

\* Math.floor of a non-negative double: a natural number, or NaN
floor(x) ==
    IF x.nan THEN x
    ELSE IF x.e >= 0 THEN [x EXCEPT !.m = ShiftLeft(x.m, x.e), !.e = 0]
    ELSE [x EXCEPT !.m = ShiftRight(x.m, 0 - x.e).q, !.e = 0]

RECURSIVE NatDigits(_)
NatDigits(b) ==
    IF b = <<>> THEN <<>>
    ELSE LET div == DivSmall(b, 10)
         IN  NatDigits(StripZeros(div.q)) \o <<DigitChars[div.r + 1]>>

\* `${n}` of the result of Math.floor
FormatFloor(x) ==
    IF x.nan THEN <<"N", "a", "N">>
    ELSE IF x.m = <<>> THEN <<"0">> ELSE NatDigits(x.m)

RECURSIVE NatGreater(_, _)
NatGreater(a, b) ==
    IF Len(a) # Len(b) THEN Len(a) > Len(b)
    ELSE IF a = <<>> THEN FALSE
    ELSE IF a[Len(a)] # b[Len(b)] THEN a[Len(a)] > b[Len(b)]
    ELSE NatGreater(SubSeq(a, 1, Len(a) - 1), SubSeq(b, 1, Len(b) - 1))

\* x > y for two non-negative doubles: false when either is NaN
DoubleGreater(x, y) ==
    /\ ~x.nan /\ ~y.nan
    /\ LET low == IF x.e < y.e THEN x.e ELSE y.e
       IN  NatGreater(ShiftLeft(x.m, x.e - low), ShiftLeft(y.m, y.e - low))

(***************************************************************************)
(* Outcomes of a function: a returned value or a thrown one.               *)
(***************************************************************************)
Return(v) == [kind |-> "return", value |-> v]
Throw(e) == [kind |-> "throw", value |-> e]

\* new Error(message): no code, no status, no error, no details
JsError(message) ==
    [code |-> 0, status |-> 0, error |-> Absent, message |-> message, details |-> <<>>]

\* throw { code, error, message, details: data }
ApiError(code, error, message, data) ==
    [code |-> code, status |-> 0, error |-> error, message |-> message, details |-> <<data>>]

(***************************************************************************)
(* handlers.ts: validators                                                 *)
(***************************************************************************)
MsgAmountNumber == "Bid amount must be a valid number"
MsgAmountRange == "Bid amount must be between 1 and 100 TON"
MsgWallet == "Valid wallet address is required"
MsgBidId == "Valid bid ID is required"

\* mutant: the bounds themselves rejected
validateBidAmountExclusive(amount) ==
    IF ~TypeofNumber(amount) \/ amount.t = "nan"
    THEN Throw(JsError(MsgAmountNumber))
    ELSE IF NumLess(amount, MIN_TON + 1) \/ NumGreater(amount, MAX_TON - 1)
    THEN Throw(JsError(MsgAmountRange))
    ELSE Return(TRUE)

validateBidAmount(amount) ==
    IF ~TypeofNumber(amount) \/ amount.t = "nan"
    THEN Throw(JsError(MsgAmountNumber))
    ELSE IF NumLess(amount, MIN_TON) \/ NumGreater(amount, MAX_TON)
    THEN Throw(JsError(MsgAmountRange))
    ELSE Return(TRUE)


\* mutant: the check without trim() of an earlier revision
validateWalletNoTrim(wallet) ==
    IF wallet.t # "string" \/ wallet.s = <<>>
    THEN Throw(JsError(MsgWallet))
    ELSE Return(TRUE)

validateWallet(wallet) ==
    IF wallet.t # "string" \/ wallet.s = <<>> \/ Len(Trim(wallet.s)) = 0
    THEN Throw(JsError(MsgWallet))
    ELSE Return(TRUE)

\* mutant: a bid id of blanks is let through
validateBidIdNoTrim(bidId) ==
    IF bidId.t # "string" \/ bidId.s = <<>>
    THEN Throw(JsError(MsgBidId))
    ELSE Return(TRUE)

validateBidId(bidId) ==
    IF bidId.t # "string" \/ bidId.s = <<>> \/ Len(Trim(bidId.s)) = 0
    THEN Throw(JsError(MsgBidId))
    ELSE Return(TRUE)

validateLimit(limit) ==
    IF limit.t = "undefined" THEN Num(DEFAULT_BIDS_LIMIT)
    ELSE IF ~TypeofNumber(limit) \/ limit.t = "nan" \/ NumLess(limit, 1)
    THEN Num(DEFAULT_BIDS_LIMIT)
    ELSE IF NumGreater(limit, MAX_BIDS_LIMIT) THEN Num(MAX_BIDS_LIMIT) ELSE limit

(***************************************************************************)
(* Answer bodies.  A body is a JSON object; a field that is missing holds  *)
(* Absent (AbsentNum for a number, UndefinedStr for an id).                *)
(***************************************************************************)
EmptyBody ==
    [status |-> Absent, error |-> Absent, message |-> Absent,
     bid_id |-> UndefinedStr, pay_to |-> Absent, expires_in |-> AbsentNum,
     ton_amount |-> UndefinedStr,
     refund_ton |-> UndefinedStr, bid_price_ton |-> UndefinedStr,
     tonconnect_universal_link |-> Absent,
     auction_id |-> Absent, current_price_ton |-> UndefinedStr,
     final_price_ton |-> Absent, closed_at |-> Absent,
     calm_token |-> Absent, calm_token_expires_in |-> AbsentNum]

BidId1 == Str(<<"b", "1">>)

ErrorBodies ==
    { [EmptyBody EXCEPT !.error = e, !.message = m] :
        e \in {Absent, "auction_closed"}, m \in {Absent, "upstream says no"} }

QuoteBodies ==
    { [EmptyBody EXCEPT !.bid_id = BidId1, !.pay_to = p, !.expires_in = x,
                        !.tonconnect_universal_link = "ton://transfer/R"] :
        p \in {Absent, "R"}, x \in {59, 60, 299, 300} }

BidStatuses == {"completed", "allocated", "refunded", "expired", "pending"}

BidBodies ==
    { [EmptyBody EXCEPT !.status = st, !.bid_id = BidId1] :
        st \in BidStatuses \cup {"voided"} }

\* allocated bids with the refund_ton texts the auction can send
RefundTexts == {Str(<<>>), Str(<<"0">>), Str(<<"0", ".", "0", "0">>), Str(<<"0", ".", "5">>)}

AllocatedBodies ==
    { [EmptyBody EXCEPT !.status = "allocated", !.bid_id = BidId1, !.refund_ton = r] :
        r \in RefundTexts }

\* completed bids with the bid_price_ton texts the auction can send
BidPriceTexts ==
    {Str(<<>>), Str(<<"0", ".", "1">>), Str(<<"0", ".", "1", "5">>),
     Str(<<"0", ".", "2">>)}

CompletedBodies ==
    { [EmptyBody EXCEPT !.status = "completed", !.bid_id = BidId1,
                        !.bid_price_ton = p] : p \in BidPriceTexts }

InfoBodies ==
    { [EmptyBody EXCEPT !.status = "active", !.auction_id = "a1",
                        !.current_price_ton = Str(<<"0", ".", "1", "5">>)] }

ClosedBodies ==
    { [EmptyBody EXCEPT !.error = "auction_closed", !.message = "Auction closed",
                        !.final_price_ton = "0.52",
                        !.closed_at = "2025-01-01T00:00:00Z"],
      [EmptyBody EXCEPT !.error = "auction_closed", !.final_price_ton = "0.75"] }

CalmBodies ==
    { [EmptyBody EXCEPT !.error = "enhance_your_calm", !.calm_token = "T1",
                        !.calm_token_expires_in = 1] }

(***************************************************************************)
(* api.ts                                                                  *)
(***************************************************************************)
NoToken == [token |-> Absent, expiresAt |-> AbsentNum]

\* mutant: the stored token returned without looking at its expiry
getCalmTokenNoExpiry(endpoint) ==
    LET tokenData == CALM_TOKENS[endpoint]
    IN  IF tokenData # NoToken THEN tokenData.token ELSE Absent

\* getCalmToken reads the process-wide map and the clock
getCalmToken(endpoint) ==
    LET tokenData == CALM_TOKENS[endpoint]
    IN  IF tokenData # NoToken /\ tokenData.expiresAt > now
        THEN tokenData.token
        ELSE Absent

\* the map after setCalmToken(endpoint, token, expiresInSeconds)
setCalmToken(endpoint, token, expiresInSeconds) ==
    LET expiresAt == IF expiresInSeconds = AbsentNum THEN AbsentNum
                     ELSE now + (expiresInSeconds * 1000)
    IN  [CALM_TOKENS EXCEPT ![endpoint] = [token |-> token, expiresAt |-> expiresAt]]

\* mutant: the calm token sent as a query parameter instead of a header
fetchRequestTokenInUrl(url, endpoint) ==
    [url |-> [url EXCEPT !.query = Append(@, <<"calm_token", <<getCalmToken(endpoint)>> >>)],
     calm_token |-> Absent]

\* fetchWithStatus, up to its first await: fetch(url, { headers })
fetchRequest(url, endpoint) ==
    [url |-> url, calm_token |-> getCalmToken(endpoint)]

\* mutant: the token of a 420 answer stored for every endpoint
fetchStoreTokenEverywhere(endpoint, status, data) ==
    IF status = RATE_LIMITED /\ Truthy(data.calm_token)
    THEN [e \in Endpoints |->
            [token |-> data.calm_token,
             expiresAt |-> now + (data.calm_token_expires_in * 1000)]]
    ELSE CALM_TOKENS

\* fetchWithStatus, after the answer: the map it leaves behind
fetchStoreToken(endpoint, status, data) ==
    IF status = RATE_LIMITED /\ Truthy(data.calm_token)
    THEN setCalmToken(endpoint, data.calm_token, data.calm_token_expires_in)
    ELSE CALM_TOKENS

Url(endpoint, query) == [endpoint |-> endpoint, query |-> query]

AuctionInfoUrl == Url(AUCTION_INFO, <<>>)

CreateBidUrl(tonAmount, wallet) ==
    Url(AUCTION_BID, << <<"ton_amount", FormatNumber(tonAmount)>>,
                        <<"wallet", encodeURIComponent(wallet)>> >>)

CheckBidUrl(bidId) ==
    Url(AUCTION_BID, << <<"bid_id", encodeURIComponent(bidId)>> >>)

MyBidUrl(wallet) ==
    Url(AUCTION_MY_BID, << <<"wallet", encodeURIComponent(wallet)>> >>)

RecentBidsUrl(limit) ==
    Url(AUCTION_BIDS, << <<"limit", FormatNumber(limit)>> >>)

\* mutant: the answer body returned whatever the status is
getAuctionInfoAnyStatus(status, data) == Return(data)

getAuctionInfo(status, data) ==
    IF status = NOT_FOUND
    THEN Throw(ApiError(status, "no_auction", Or(data.message, "No auction found"), data))
    ELSE IF status # OK
    THEN Throw(ApiError(status, Or(data.error, "api_error"),
                        Or(data.message, "API request failed"), data))
    ELSE Return(data)

createBid(status, data) ==
    IF status = PAYMENT_REQUIRED THEN Return([status |-> status, data |-> data])
    ELSE IF status = OK THEN Return([status |-> status, data |-> data])
    ELSE Throw(ApiError(status, Or(data.error, "api_error"),
                        Or(data.message, "Failed to create bid"), data))

checkBidById(status, data) ==
    IF status = NOT_FOUND
    THEN Throw(ApiError(status, "bid_not_found", Or(data.message, "Bid ID not found"), data))
    ELSE IF status # OK /\ status # PAYMENT_REQUIRED /\ status # GONE
    THEN Throw(ApiError(status, Or(data.error, "api_error"),
                        Or(data.message, "API request failed"), data))
    ELSE Return([status |-> status, data |-> data])


\* mutant: a 404 of the my-bid endpoint returned as a value
getMyBidAbsence(status, data) ==
    IF status = NOT_FOUND THEN Return([data EXCEPT !.status = "not_found"])
    ELSE IF status # OK
    THEN Throw(ApiError(status, Or(data.error, "api_error"),
                        Or(data.message, "API request failed"), data))
    ELSE Return(data)

getMyBid(status, data) ==
    IF status # OK
    THEN Throw(ApiError(status, Or(data.error, "api_error"),
                        Or(data.message, "API request failed"), data))
    ELSE Return(data)

getRecentBids(status, data) ==
    IF status # OK
    THEN Throw(ApiError(status, Or(data.error, "api_error"),
                        Or(data.message, "API request failed"), data))
    ELSE Return(data)

(***************************************************************************)
(* handlers.ts: the handlers after their last await.  Fields of the answer *)
(* that are only copied (tx_hash, paymentId, signature ...) are left out.  *)
(***************************************************************************)
MsgMissingStatus == "Invalid response: missing status field"

DeeplinkInstructions ==
    "Click this link to open your TON wallet app and complete the payment. This is a direct wallet link, not a QR code."

\* the number 0 as a double
ZeroDouble == [nan |-> FALSE, m |-> <<>>, e |-> 0]

\* mutant: a bid is oversubscribed as soon as the answer names a refund
hasRefundNamed(refund_ton) ==
    refund_ton.t = "string" /\ refund_ton.s # <<>>

\* Boolean(refund_ton && parseFloat(refund_ton) > 0)
hasRefund(refund_ton) ==
    /\ refund_ton.t = "string" /\ refund_ton.s # <<>>
    /\ DoubleGreater(parseFloat(refund_ton), ZeroDouble)

\* mutant: a countdown of exactly 60 seconds is critical, of 300 high
urgencyOfInclusive(expires_in) ==
    IF Less(expires_in, 61) THEN "critical"
    ELSE IF Less(expires_in, 301) THEN "high" ELSE "normal"

urgencyOf(expires_in) ==
    IF Less(expires_in, 60) THEN "critical"
    ELSE IF Less(expires_in, 300) THEN "high" ELSE "normal"

\* a || b for two texts
OrStr(a, b) == IF a.t = "string" /\ a.s # <<>> THEN a ELSE b

\* handleCreateBid: price_comparison of the completed branch
priceComparison(auctionInfo, completedData) ==
    LET currentPrice == auctionInfo.current_price_ton
        bidPrice == OrStr(completedData.bid_price_ton, Str(<<"0">>))
    IN  [locked_price |-> bidPrice,
         current_price |-> currentPrice,
         favorable |-> DoubleGreater(parseFloat(currentPrice), parseFloat(bidPrice))]

\* handleCreateBid: the 200 branches that return
CreateBidExisting(auctionInfo, data) ==
    IF data.status = "completed" THEN
        [status |-> "completed", action_required |-> "wait",
         bid |-> [bid_id |-> data.bid_id, bid_price_ton |-> data.bid_price_ton],
         payment |-> [confirmed |-> TRUE],
         price_comparison |-> priceComparison(auctionInfo, data),
         auction |-> [status |-> "active"],
         next_step |-> "wait_for_allocation"]
    ELSE IF data.status = "allocated" THEN
        [status |-> "allocated", action_required |-> "none",
         bid |-> [bid_id |-> data.bid_id],
         payment |-> [confirmed |-> TRUE],
         allocation |-> [success |-> TRUE,
                         oversubscribed |-> hasRefund(data.refund_ton),
                         full_allocation |-> ~hasRefund(data.refund_ton),
                         pricing_model |-> "pay-as-bid"],
         auction |-> [status |-> "closed_successful"],
         next_step |-> "check_wallet"]
    ELSE
        [status |-> "refunded", action_required |-> "none",
         bid |-> [bid_id |-> data.bid_id],
         payment |-> [confirmed |-> TRUE],
         auction |-> [status |-> "closed_failed", reason |-> "target_not_reached"],
         refund |-> [processed |-> TRUE, transaction_fee_deducted |-> TRUE],
         next_step |-> "check_wallet"]

\* handleCreateBid: "New bid - 402 Payment Required"
CreateBidPaymentRequired(auctionInfo, bidData) ==
    [status |-> "payment_required", action_required |-> "payment",
     urgency |-> urgencyOf(bidData.expires_in),
     bid |-> [bid_id |-> bidData.bid_id,
              expires_in_seconds |-> bidData.expires_in,
              locked_price |-> bidData.current_price_ton,
              created_at |-> now],
     auction |-> [auction_id |-> auctionInfo.auction_id,
                  current_price_ton |-> auctionInfo.current_price_ton,
                  mechanism |-> "pay-as-bid",
                  status |-> auctionInfo.status],
     payment |-> [required |-> TRUE,
                  recipient |-> bidData.pay_to,
                  comment_required |-> bidData.bid_id,
                  deeplink |-> bidData.tonconnect_universal_link,
                  deeplink_instructions |-> DeeplinkInstructions,
                  expires_in_seconds |-> bidData.expires_in,
                  \* bidData.network || 'TON': the bodies carry no network
                  network |-> "TON"],
     next_step |-> "send_payment",
     timestamp |-> now]

\* handleCreateBid after createBid has returned `response`
handleCreateBid(auctionInfo, response) ==
    IF response.status = OK /\ response.data.status = Absent
    THEN Throw(JsError(MsgMissingStatus))
    ELSE IF response.status = OK
            /\ response.data.status \in {"completed", "allocated", "refunded"}
    THEN Return(CreateBidExisting(auctionInfo, response.data))
    ELSE Return(CreateBidPaymentRequired(auctionInfo, response.data))

\* mutant: the closed outcome without the fields of the answer
CheckBidClosedBare(closedData) ==
    [status |-> "auction_closed", action_required |-> "none",
     auction |-> [status |-> "closed", final_price_ton |-> Absent, closed_at |-> Absent],
     next_step |-> "check_my_bid"]

\* handleCheckBidById: the 410 branch
CheckBidClosed(closedData) ==
    [status |-> "auction_closed", action_required |-> "none",
     auction |-> [status |-> "closed",
                  final_price_ton |-> closedData.final_price_ton,
                  closed_at |-> closedData.closed_at],
     next_step |-> "check_my_bid"]

\* handleCheckBidById after checkBidById has returned { status, data }
handleCheckBidById(status, data) ==
    IF status = PAYMENT_REQUIRED THEN
        Return([status |-> "payment_pending", action_required |-> "payment",
                urgency |-> urgencyOf(data.expires_in),
                bid |-> [bid_id |-> data.bid_id,
                         expires_in_seconds |-> data.expires_in,
                         locked_price |-> data.current_price_ton],
                payment |-> [required |-> TRUE,
                             recipient |-> data.pay_to,
                             comment_required |-> data.bid_id,
                             deeplink |-> data.tonconnect_universal_link,
                             deeplink_instructions |-> DeeplinkInstructions,
                             expires_in_seconds |-> data.expires_in],
                next_step |-> "send_payment"])
    ELSE IF status = GONE THEN Return(CheckBidClosed(data))
    ELSE IF data.status = Absent THEN Throw(JsError(MsgMissingStatus))
    ELSE Return([status |-> Or(data.status, "unknown"),
                 action_required |-> IF data.status = "pending" THEN "payment" ELSE "none"])


\* mutant: the lookup by bid id follows every wallet lookup
MyBidNeedsCheckAlways(bid) == TRUE

\* handleGetMyBid: whether the lookup by bid id follows the wallet lookup
MyBidNeedsCheck(bid) == bid.status = "pending"

\* handleGetMyBid: the request of that lookup, checkBidById(bid.bid_id)
MyBidCheckUrl(bid, wallet) == CheckBidUrl(bid.bid_id)

\* handleGetMyBid: the pending branch that returns payment instructions
MyBidPaymentFound(status, data) == status = PAYMENT_REQUIRED /\ Truthy(data.pay_to)

MyBidPayment(bid, wallet, data) ==
    Merge(bid,
          [action_required |-> "payment",
           urgency |-> urgencyOf(data.expires_in),
           wallet |-> wallet,
           payment |-> [required |-> TRUE,
                        recipient |-> data.pay_to,
                        comment_required |-> bid.bid_id,
                        deeplink |-> data.tonconnect_universal_link,
                        deeplink_instructions |-> DeeplinkInstructions,
                        expires_in_seconds |-> data.expires_in],
           next_step |-> "send_payment"])

\* handleGetMyBid: the branches on bid.status after the pending branch
MyBidByStatus(bid, wallet) ==
    IF bid.status = "completed" THEN
        Merge(bid, [wallet |-> wallet, action_required |-> "wait",
                    payment |-> [confirmed |-> TRUE],
                    next_step |-> "wait_for_allocation",
                    timestamp |-> now])
    ELSE IF bid.status = "allocated" THEN
        Merge(bid, [wallet |-> wallet, action_required |-> "none",
                    allocation |-> [success |-> TRUE,
                                    oversubscribed |-> hasRefund(bid.refund_ton),
                                    full_allocation |-> ~hasRefund(bid.refund_ton),
                                    pricing_model |-> "pay-as-bid"],
                    next_step |-> "check_wallet",
                    timestamp |-> now])
    ELSE IF bid.status = "refunded" THEN
        Merge(bid, [wallet |-> wallet, action_required |-> "none",
                    auction |-> [status |-> "failed", reason |-> "target_not_reached"],
                    refund |-> [processed |-> TRUE, transaction_fee_deducted |-> TRUE],
                    next_step |-> "check_wallet",
                    timestamp |-> now])
    ELSE IF bid.status = "expired" THEN
        Merge(bid, [wallet |-> wallet, action_required |-> "create_new_bid",
                    next_step |-> "create_new_bid"])
    ELSE
        Merge(bid, [wallet |-> wallet, action_required |-> "unknown"])

(***************************************************************************)
(* handlers.ts and api.ts of the revisions that generate a payment         *)
(* deeplink.  A deeplink is kept as its parts, in the order of the         *)
(* template `ton://transfer/${destination}?amount=${n}&text=${comment}`.   *)
(***************************************************************************)
generateTonDeeplink(destination, amountTon, comment) ==
    [destination |-> destination,
     amount |-> FormatFloor(floor(TimesE9(parseFloat(amountTon)))),
     text |-> encodeURIComponent(comment)]

\* throw { code: status, ...data }
SpreadError(status, data) ==
    [code |-> status, status |-> 0, error |-> data.error,
     message |-> data.message, details |-> <<>>]

\* api.ts: getAuctionInfo, the 404 defaults overwritten by the body's fields
getAuctionInfoSpread(status, data) ==
    IF status = NOT_FOUND
    THEN Throw([SpreadError(status, data) EXCEPT
                  !.error = IF data.error # Absent THEN data.error ELSE "no_auction",
                  !.message = IF data.message # Absent THEN data.message
                              ELSE "No auction found"])
    ELSE IF status # OK THEN Throw(SpreadError(status, data))
    ELSE Return(data)

\* api.ts: createBid returns the body of a 402 or of a 200 answer
createBidBody(status, data) ==
    IF status = PAYMENT_REQUIRED THEN Return(data)
    ELSE IF status # OK THEN Throw(SpreadError(status, data))
    ELSE Return(data)

\* api.ts: checkBidById, the 404 defaults overwritten by the body's fields
checkBidByIdSpread(status, data) ==
    IF status = NOT_FOUND
    THEN Throw([SpreadError(status, data) EXCEPT
                  !.error = IF data.error # Absent THEN data.error ELSE "bid_not_found",
                  !.message = IF data.message # Absent THEN data.message
                              ELSE "Bid ID not found"])
    ELSE IF status # OK /\ status # PAYMENT_REQUIRED /\ status # GONE
    THEN Throw(SpreadError(status, data))
    ELSE Return([status |-> status, data |-> data])

\* { status: name, ...data }: a status field of the body wins
SpreadStatus(name, data) == IF data.status # Absent THEN data.status ELSE name

\* handleCreateBid: the deeplink carries the bid id as its comment
handleCreateBidLink(response) ==
    Return(Merge(response,
          [status |-> SpreadStatus("payment_required", response),
           ton_deeplink |-> generateTonDeeplink(response.pay_to, response.ton_amount,
                                                response.bid_id),
           message |-> "Payment required"]))

LabelChars ==
    <<"T", "P", "I", "N", "G", " ", "A", "u", "c", "t", "i", "o", "n", " ",
      "b", "i", "d", " ", "-", " ">>

\* `TPING Auction bid - ${bid_id.substring(0, 10)}`
labelComment(bid_id) ==
    Str(LabelChars \o SubSeq(bid_id.s, 1, IF Len(bid_id.s) < 10 THEN Len(bid_id.s) ELSE 10))

MsgSubstring == "Cannot read properties of undefined (reading 'substring')"

\* handleCreateBid of the earlier revision: the deeplink carries a label, and
\* the status is the number 402 unless the body has a status
handleCreateBidLabel(response) ==
    IF response.bid_id.t # "string" THEN Throw(JsError(MsgSubstring))
    ELSE Return(Merge(response,
           [status |-> SpreadStatus(ToString(PAYMENT_REQUIRED), response),
            ton_deeplink |-> generateTonDeeplink(response.pay_to, response.ton_amount,
                                                 labelComment(response.bid_id)),
            message |-> "Payment required"]))

\* handleCheckBidById with a generated deeplink
handleCheckBidByIdLink(status, data) ==
    IF status = PAYMENT_REQUIRED THEN
        Return(Merge(data,
              [status |-> SpreadStatus("payment_required", data),
               ton_deeplink |-> generateTonDeeplink(data.pay_to, data.ton_amount,
                                                    data.bid_id),
               message |-> "Bid payment pending"]))
    ELSE IF status = GONE THEN
        Return(Merge(data, [status |-> SpreadStatus("auction_closed", data),
                            message |-> "Auction has closed"]))
    ELSE Return(Merge(data, [status |-> SpreadStatus(Or(data.status, "unknown"), data)]))

(***************************************************************************)
(* handlers.ts of the revision that returns the HTTP status as `status`.   *)
(* The number is kept as its decimal text, as a status of the body is a    *)
(* text.                                                                   *)
(***************************************************************************)
MsgPaymentRequired == "Payment required - use tonconnect_universal_link to complete"
MsgPaymentPending == "Bid payment pending - use tonconnect_universal_link to complete"
MsgAuctionClosed == "Auction has closed"

\* { status: HTTP_STATUS.PAYMENT_REQUIRED, ...response, message }
handleCreateBidNumeric(response) ==
    Return(Merge(response,
                 [status |-> SpreadStatus(ToString(PAYMENT_REQUIRED), response),
                  message |-> MsgPaymentRequired]))

handleCheckBidByIdNumeric(status, data) ==
    IF status = PAYMENT_REQUIRED THEN
        Return(Merge(data, [status |-> SpreadStatus(ToString(status), data),
                            message |-> MsgPaymentPending]))
    ELSE IF status = GONE THEN
        Return(Merge(data, [status |-> SpreadStatus(ToString(status), data),
                            message |-> MsgAuctionClosed]))
    ELSE Return(Merge(data, [status |-> SpreadStatus(ToString(OK), data)]))

(***************************************************************************)
(* index.ts: the tool router                                               *)
(***************************************************************************)
MsgUnknownTool == "Unknown tool"

formatResponse(data) == [isError |-> FALSE, payload |-> data]

formatError(error) ==
    LET errorMessage == IF Truthy(error.message) THEN error.message
                        ELSE Or(error.error, "An error occurred")
        \* String(apiError.code || apiError.error || 'UNKNOWN_ERROR')
        errorCode == IF error.code # 0 THEN ToString(error.code)
                     ELSE Or(error.error, "UNKNOWN_ERROR")
        \* errorCode === '...' is false of a numeric code
        codeIs(name) == error.code = 0 /\ errorCode = name
        httpStatus == IF error.code # 0 THEN error.code
                      ELSE IF error.status # 0 THEN error.status ELSE 500
        base == [error |-> errorCode, message |-> errorMessage, code |-> httpStatus,
                 retryable |-> (httpStatus >= 500 \/ httpStatus = 429)]
        withDetails == IF error.details # <<>>
                       THEN Merge(base, [details |-> error.details[1]]) ELSE base
        hint == IF codeIs("no_active_auction") \/ codeIs("no_auction")
                THEN "check_auction_status"
                ELSE IF codeIs("invalid_amount") THEN "adjust_amount"
                ELSE IF codeIs("auction_closed") THEN "check_auction_status"
                ELSE IF codeIs("bid_not_found") THEN "verify_bid_id"
                ELSE Absent
    IN  [isError |-> TRUE,
         payload |-> IF hint # Absent
                     THEN Merge(withDetails, [action_required |-> hint])
                     ELSE withDetails]

\* mutant: the catch answers a failed call like an empty success
routerResultSwallows(outcome) ==
    IF outcome.kind = "return" THEN formatResponse(outcome.value)
    ELSE formatResponse(<<>>)

\* the try/catch of the CallToolRequestSchema handler
routerResult(outcome) ==
    IF outcome.kind = "return" THEN formatResponse(outcome.value)
    ELSE formatError(outcome.value)

(***************************************************************************)
(* State.  inv[s] is the tool invocation running in slot s of the router:  *)
(* its arguments, the requests it has issued (reqs), the answers those got *)
(* (answers), what it holds across an await (held), what the handler       *)
(* returned or threw (outcome) and what the router answered (result).      *)
(* reads[k] is the value of the clock when request k read the calm token,   *)
(* kept while the invocation runs.                                         *)
(* CALM_TOKENS is the process-wide map of api.ts, now the clock in ms.     *)
(***************************************************************************)
Slots == {1, 2}

NoArgs ==
    [amount |-> UndefinedNum, wallet |-> UndefinedStr,
     bid_id |-> UndefinedStr, limit |-> UndefinedNum]

NoOutcome == [kind |-> "none", value |-> <<>>]
NoResult == [isError |-> FALSE, payload |-> <<>>]

Idle ==
    [pc |-> "idle", tool |-> "", args |-> NoArgs, stage |-> "",
     reqs |-> <<>>, reads |-> <<>>, answers |-> <<>>, held |-> EmptyBody,
     outcome |-> NoOutcome, result |-> NoResult]

Answer(status, data) ==
    [failed |-> FALSE, status |-> status, data |-> data, reason |-> ""]
Failure(message) ==
    [failed |-> TRUE, status |-> 0, data |-> EmptyBody, reason |-> message]

\* the process before main() has connected the transport: no exit code yet,
\* no signal waiting for its listener, shutdown() has not run
Starting ==
    [state |-> "starting", exitCode |-> AbsentNum, cause |-> "",
     signals |-> <<>>, shutdowns |-> 0]

Init ==
    /\ inv = [s \in Slots |-> Idle]
    /\ CALM_TOKENS = [e \in Endpoints |-> NoToken]
    /\ now = 0
    /\ isShuttingDown = FALSE
    /\ process = Starting

\* the transport is connected and the process has not exited
Running == process.state = "running"

\* process.exit(code)
exit(p, code, cause) ==
    [p EXCEPT !.state = "exited", !.exitCode = code, !.cause = cause]


\* mutant: an upstream error that looks transient is answered by sending the
\* request again
FinishOrRetry(slot, outcome) ==
    IF outcome.kind = "throw" /\ outcome.value.code \in {420, 429, 500}
       /\ Len(slot.reqs) = 1
    THEN [slot EXCEPT !.reqs = Append(@, slot.reqs[1])]
    ELSE [slot EXCEPT !.pc = "done", !.stage = "", !.reads = <<>>,
                      !.outcome = outcome, !.result = routerResult(outcome)]

\* the handler ends: the router formats what it returned or threw
Finish(slot, outcome) ==
    [slot EXCEPT !.pc = "done", !.stage = "", !.reads = <<>>,
                 !.outcome = outcome, !.result = routerResult(outcome)]

\* the handler reaches an await of fetch(url, { headers })
Await(slot, stage, url, endpoint) ==
    [slot EXCEPT !.pc = "await", !.stage = stage,
                 !.reqs = Append(@, fetchRequest(url, endpoint)),
                 !.reads = Append(@, now)]

\* a tool call: validation, then the first request
Started(tool, args, validation, stage, url, endpoint) ==
    LET fresh == [Idle EXCEPT !.tool = tool, !.args = args]
    IN  IF validation.kind = "throw" THEN Finish(fresh, validation)
        ELSE Await(fresh, stage, url, endpoint)

\* slot s with the answer (status, data) to its pending request
Got(s, status, data) ==
    [inv[s] EXCEPT !.answers = Append(@, Answer(status, data))]

Pending(s, stage) == inv[s].pc = "await" /\ inv[s].stage = stage

CallGetAuctionInfo(s) ==
    /\ Running /\ inv[s].pc = "idle"
    /\ inv' = [inv EXCEPT ![s] =
                 Started("get_auction_info", NoArgs, Return(TRUE),
                         "info", AuctionInfoUrl, AUCTION_INFO)]
    /\ UNCHANGED <<CALM_TOKENS, now, isShuttingDown, process>>

CallCreateBid(s, tonAmount, wallet) ==
    /\ Running /\ inv[s].pc = "idle"
    /\ LET amountOk == validateBidAmount(tonAmount)
       IN  inv' = [inv EXCEPT ![s] =
                     Started("create_auction_bid",
                             [NoArgs EXCEPT !.amount = tonAmount, !.wallet = wallet],
                             IF amountOk.kind = "throw" THEN amountOk
                             ELSE validateWallet(wallet),
                             "create_info", AuctionInfoUrl, AUCTION_INFO)]
    /\ UNCHANGED <<CALM_TOKENS, now, isShuttingDown, process>>

CallCheckBidStatus(s, bidId) ==
    /\ Running /\ inv[s].pc = "idle"
    /\ inv' = [inv EXCEPT ![s] =
                 Started("check_bid_status", [NoArgs EXCEPT !.bid_id = bidId],
                         validateBidId(bidId), "check", CheckBidUrl(bidId), AUCTION_BID)]
    /\ UNCHANGED <<CALM_TOKENS, now, isShuttingDown, process>>

CallGetMyBid(s, wallet) ==
    /\ Running /\ inv[s].pc = "idle"
    /\ inv' = [inv EXCEPT ![s] =
                 Started("get_my_bid", [NoArgs EXCEPT !.wallet = wallet],
                         validateWallet(wallet), "my_bid", MyBidUrl(wallet), AUCTION_MY_BID)]
    /\ UNCHANGED <<CALM_TOKENS, now, isShuttingDown, process>>

CallGetRecentBids(s, limit) ==
    /\ Running /\ inv[s].pc = "idle"
    /\ inv' = [inv EXCEPT ![s] =
                 Started("get_recent_bids", [NoArgs EXCEPT !.limit = limit],
                         Return(TRUE), "bids",
                         RecentBidsUrl(validateLimit(limit)), AUCTION_BIDS)]
    /\ UNCHANGED <<CALM_TOKENS, now, isShuttingDown, process>>

\* default: throw new Error(`Unknown tool: ${name}`)
CallUnknownTool(s) ==
    /\ Running /\ inv[s].pc = "idle"
    /\ inv' = [inv EXCEPT ![s] =
                 Finish([Idle EXCEPT !.tool = "unknown_tool"],
                        Throw(JsError(MsgUnknownTool)))]
    /\ UNCHANGED <<CALM_TOKENS, now, isShuttingDown, process>>

\* handleGetAuctionInfo: return await getAuctionInfo()
AuctionInfoAnswered(s, status, data) ==
    /\ Running /\ Pending(s, "info")
    /\ CALM_TOKENS' = fetchStoreToken(AUCTION_INFO, status, data)
    /\ inv' = [inv EXCEPT ![s] =
                 Finish(Got(s, status, data), getAuctionInfo(status, data))]
    /\ UNCHANGED <<now, isShuttingDown, process>>

\* handleCreateBid: const auctionInfo = await getAuctionInfo(), then createBid
CreateBidInfoAnswered(s, status, data) ==
    /\ Running /\ Pending(s, "create_info")
    /\ CALM_TOKENS' = fetchStoreToken(AUCTION_INFO, status, data)
    /\ LET got == Got(s, status, data)
           info == getAuctionInfo(status, data)
       IN  inv' = [inv EXCEPT ![s] =
                     IF info.kind = "throw" THEN Finish(got, info)
                     ELSE Await([got EXCEPT !.held = info.value], "create_bid",
                                CreateBidUrl(got.args.amount, got.args.wallet),
                                AUCTION_BID)]
    /\ UNCHANGED <<now, isShuttingDown, process>>

\* handleCreateBid: const response = await createBid(...), then the outcome
CreateBidAnswered(s, status, data) ==
    /\ Running /\ Pending(s, "create_bid")
    /\ CALM_TOKENS' = fetchStoreToken(AUCTION_BID, status, data)
    /\ LET got == Got(s, status, data)
           response == createBid(status, data)
       IN  inv' = [inv EXCEPT ![s] =
                     IF response.kind = "throw" THEN Finish(got, response)
                     ELSE Finish(got, handleCreateBid(got.held, response.value))]
    /\ UNCHANGED <<now, isShuttingDown, process>>

\* handleCheckBidById: const { status, data } = await checkBidById(bidId)
CheckBidAnswered(s, status, data) ==
    /\ Running /\ Pending(s, "check")
    /\ CALM_TOKENS' = fetchStoreToken(AUCTION_BID, status, data)
    /\ LET got == Got(s, status, data)
           r == checkBidById(status, data)
       IN  inv' = [inv EXCEPT ![s] =
                     IF r.kind = "throw" THEN Finish(got, r)
                     ELSE Finish(got, handleCheckBidById(r.value.status, r.value.data))]
    /\ UNCHANGED <<now, isShuttingDown, process>>

\* handleGetMyBid: const bid = await getMyBid(wallet)
MyBidAnswered(s, status, data) ==
    /\ Running /\ Pending(s, "my_bid")
    /\ CALM_TOKENS' = fetchStoreToken(AUCTION_MY_BID, status, data)
    /\ LET got == Got(s, status, data)
           bid == getMyBid(status, data)
       IN  inv' = [inv EXCEPT ![s] =
                     IF bid.kind = "throw" THEN Finish(got, bid)
                     ELSE IF MyBidNeedsCheck(bid.value)
                     THEN Await([got EXCEPT !.held = bid.value], "my_bid_check",
                                MyBidCheckUrl(bid.value, got.args.wallet), AUCTION_BID)
                     ELSE Finish(got, Return(MyBidByStatus(bid.value, got.args.wallet)))]
    /\ UNCHANGED <<now, isShuttingDown, process>>

\* handleGetMyBid: const { status, data } = await checkBidById(bid.bid_id)
MyBidCheckAnswered(s, status, data) ==
    /\ Running /\ Pending(s, "my_bid_check")
    /\ CALM_TOKENS' = fetchStoreToken(AUCTION_BID, status, data)
    /\ LET got == Got(s, status, data)
           r == checkBidById(status, data)
       IN  inv' = [inv EXCEPT ![s] =
                     IF r.kind = "throw" THEN Finish(got, r)
                     ELSE IF MyBidPaymentFound(r.value.status, r.value.data)
                     THEN Finish(got, Return(MyBidPayment(got.held, got.args.wallet,
                                                          r.value.data)))
                     ELSE Finish(got, Return(MyBidByStatus(got.held, got.args.wallet)))]
    /\ UNCHANGED <<now, isShuttingDown, process>>

\* handleGetRecentBids: return await getRecentBids(validatedLimit)
RecentBidsAnswered(s, status, data) ==
    /\ Running /\ Pending(s, "bids")
    /\ CALM_TOKENS' = fetchStoreToken(AUCTION_BIDS, status, data)
    /\ inv' = [inv EXCEPT ![s] =
                 Finish(Got(s, status, data), getRecentBids(status, data))]
    /\ UNCHANGED <<now, isShuttingDown, process>>

\* handleCreateBid with a deeplink: validation, then createBid
CallCreateBidLink(s, tonAmount, wallet) ==
    /\ Running /\ inv[s].pc = "idle"
    /\ LET amountOk == validateBidAmount(tonAmount)
       IN  inv' = [inv EXCEPT ![s] =
                     Started("create_auction_bid",
                             [NoArgs EXCEPT !.amount = tonAmount, !.wallet = wallet],
                             IF amountOk.kind = "throw" THEN amountOk
                             ELSE validateWallet(wallet),
                             "link_bid", CreateBidUrl(tonAmount, wallet), AUCTION_BID)]
    /\ UNCHANGED <<CALM_TOKENS, now, isShuttingDown, process>>

\* handleCreateBid with a deeplink: const response = await createBid(...)
CreateBidLinkAnswered(s, status, data) ==
    /\ Running /\ Pending(s, "link_bid")
    /\ LET got == Got(s, status, data)
           response == createBidBody(status, data)
       IN  inv' = [inv EXCEPT ![s] =
                     IF response.kind = "throw" THEN Finish(got, response)
                     ELSE Finish(got, handleCreateBidLink(response.value))]
    /\ UNCHANGED <<CALM_TOKENS, now, isShuttingDown, process>>

\* handleCreateBid of the earlier revision with a deeplink
CallCreateBidLabel(s, tonAmount, wallet) ==
    /\ Running /\ inv[s].pc = "idle"
    /\ LET amountOk == validateBidAmount(tonAmount)
       IN  inv' = [inv EXCEPT ![s] =
                     Started("create_auction_bid",
                             [NoArgs EXCEPT !.amount = tonAmount, !.wallet = wallet],
                             IF amountOk.kind = "throw" THEN amountOk
                             ELSE validateWallet(wallet),
                             "label_bid", CreateBidUrl(tonAmount, wallet), AUCTION_BID)]
    /\ UNCHANGED <<CALM_TOKENS, now, isShuttingDown, process>>

CreateBidLabelAnswered(s, status, data) ==
    /\ Running /\ Pending(s, "label_bid")
    /\ LET got == Got(s, status, data)
           response == createBidBody(status, data)
       IN  inv' = [inv EXCEPT ![s] =
                     IF response.kind = "throw" THEN Finish(got, response)
                     ELSE Finish(got, handleCreateBidLabel(response.value))]
    /\ UNCHANGED <<CALM_TOKENS, now, isShuttingDown, process>>

\* handleCheckBidById with a deeplink
CallCreateBidNumeric(s, tonAmount, wallet) ==
    /\ Running /\ inv[s].pc = "idle"
    /\ LET amountOk == validateBidAmount(tonAmount)
       IN  inv' = [inv EXCEPT ![s] =
                     Started("create_auction_bid",
                             [NoArgs EXCEPT !.amount = tonAmount, !.wallet = wallet],
                             IF amountOk.kind = "throw" THEN amountOk
                             ELSE validateWallet(wallet),
                             "numeric_bid", CreateBidUrl(tonAmount, wallet), AUCTION_BID)]
    /\ UNCHANGED <<CALM_TOKENS, now, isShuttingDown, process>>

CreateBidNumericAnswered(s, status, data) ==
    /\ Running /\ Pending(s, "numeric_bid")
    /\ LET got == Got(s, status, data)
           response == createBidBody(status, data)
       IN  inv' = [inv EXCEPT ![s] =
                     IF response.kind = "throw" THEN Finish(got, response)
                     ELSE Finish(got, handleCreateBidNumeric(response.value))]
    /\ UNCHANGED <<CALM_TOKENS, now, isShuttingDown, process>>

CallCheckBidNumeric(s, bidId) ==
    /\ Running /\ inv[s].pc = "idle"
    /\ inv' = [inv EXCEPT ![s] =
                 Started("check_bid_status", [NoArgs EXCEPT !.bid_id = bidId],
                         validateBidId(bidId), "numeric_check", CheckBidUrl(bidId),
                         AUCTION_BID)]
    /\ UNCHANGED <<CALM_TOKENS, now, isShuttingDown, process>>

CheckBidNumericAnswered(s, status, data) ==
    /\ Running /\ Pending(s, "numeric_check")
    /\ LET got == Got(s, status, data)
           r == checkBidByIdSpread(status, data)
       IN  inv' = [inv EXCEPT ![s] =
                     IF r.kind = "throw" THEN Finish(got, r)
                     ELSE Finish(got, handleCheckBidByIdNumeric(r.value.status,
                                                                r.value.data))]
    /\ UNCHANGED <<CALM_TOKENS, now, isShuttingDown, process>>

CallGetAuctionInfoLink(s) ==
    /\ Running /\ inv[s].pc = "idle"
    /\ inv' = [inv EXCEPT ![s] =
                 Started("get_auction_info", NoArgs, Return(TRUE),
                         "link_info", AuctionInfoUrl, AUCTION_INFO)]
    /\ UNCHANGED <<CALM_TOKENS, now, isShuttingDown, process>>

AuctionInfoLinkAnswered(s, status, data) ==
    /\ Running /\ Pending(s, "link_info")
    /\ inv' = [inv EXCEPT ![s] =
                 Finish(Got(s, status, data), getAuctionInfoSpread(status, data))]
    /\ UNCHANGED <<CALM_TOKENS, now, isShuttingDown, process>>

CallCheckBidLink(s, bidId) ==
    /\ Running /\ inv[s].pc = "idle"
    /\ inv' = [inv EXCEPT ![s] =
                 Started("check_bid_status", [NoArgs EXCEPT !.bid_id = bidId],
                         validateBidId(bidId), "link_check", CheckBidUrl(bidId),
                         AUCTION_BID)]
    /\ UNCHANGED <<CALM_TOKENS, now, isShuttingDown, process>>

CheckBidLinkAnswered(s, status, data) ==
    /\ Running /\ Pending(s, "link_check")
    /\ LET got == Got(s, status, data)
           r == checkBidByIdSpread(status, data)
       IN  inv' = [inv EXCEPT ![s] =
                     IF r.kind = "throw" THEN Finish(got, r)
                     ELSE Finish(got, handleCheckBidByIdLink(r.value.status,
                                                             r.value.data))]
    /\ UNCHANGED <<CALM_TOKENS, now, isShuttingDown, process>>

\* mutant: a network failure wrapped as an upstream 500
TransportErrorAs500(message) ==
    ApiError(500, "api_error", "API request failed", EmptyBody)

\* what fetchWithStatus rejects with: the Error of fetch or of response.json()
TransportError(message) == JsError(message)

TransportMessages == {"fetch failed", "Unexpected token < in JSON at position 0"}

\* fetch rejects, or response.json() does: the rejection reaches the router
FetchFails(s, message) ==
    /\ Running /\ inv[s].pc = "await"
    /\ inv' = [inv EXCEPT ![s] =
                 Finish([inv[s] EXCEPT !.answers = Append(@, Failure(message))],
                        Throw(TransportError(message)))]
    /\ UNCHANGED <<CALM_TOKENS, now, isShuttingDown, process>>

\* the router's answer is sent; nothing of the invocation is kept
Respond(s) ==
    /\ Running /\ inv[s].pc = "done"
    /\ inv' = [inv EXCEPT ![s] = Idle]
    /\ UNCHANGED <<CALM_TOKENS, now, isShuttingDown, process>>

\* Date.now() advances
Tick ==
    /\ now < MaxClock * 1000
    /\ now' = now + 1000
    /\ UNCHANGED <<inv, CALM_TOKENS, isShuttingDown, process>>

(***************************************************************************)
(* index.ts: start-up, termination signals and faults of the process.      *)
(***************************************************************************)
Signals == {"SIGINT", "SIGTERM"}

\* mutant: the shutdown routine reports a failure to the parent process
shutdownFailing(flag, p, signal) ==
    IF flag THEN [isShuttingDown |-> flag, process |-> p]
    ELSE [isShuttingDown |-> TRUE,
          process |-> exit([p EXCEPT !.shutdowns = @ + 1], 1, signal)]

\* shutdown(signal), with flag the value of isShuttingDown and p the process
shutdown(flag, p, signal) ==
    IF flag THEN [isShuttingDown |-> flag, process |-> p]
    ELSE [isShuttingDown |-> TRUE,
          process |-> exit([p EXCEPT !.shutdowns = @ + 1], 0, signal)]

\* await server.connect(transport) resolves
MainConnected ==
    /\ process.state = "starting"
    /\ process' = [process EXCEPT !.state = "running"]
    /\ UNCHANGED <<inv, CALM_TOKENS, now, isShuttingDown>>

\* main() rejects: main().catch exits with 1
MainFails ==
    /\ process.state = "starting"
    /\ process' = exit(process, 1, "main")
    /\ UNCHANGED <<inv, CALM_TOKENS, now, isShuttingDown>>

\* the operating system delivers a signal: its listener is queued
SignalArrives(signal) ==
    /\ process.state # "exited"
    /\ Len(process.signals) < MaxSignals
    /\ process' = [process EXCEPT !.signals = Append(@, signal)]
    /\ UNCHANGED <<inv, CALM_TOKENS, now, isShuttingDown>>

\* the listener of the oldest waiting signal runs shutdown(signal)
SignalListener ==
    /\ process.state # "exited"
    /\ process.signals # <<>>
    /\ LET after == shutdown(isShuttingDown,
                             [process EXCEPT !.signals = Tail(@)],
                             Head(process.signals))
       IN  /\ isShuttingDown' = after.isShuttingDown
           /\ process' = after.process
    /\ UNCHANGED <<inv, CALM_TOKENS, now>>

\* process.on('uncaughtException'): an exception no handler has caught
UncaughtException ==
    /\ process.state # "exited"
    /\ process' = exit(process, 1, "uncaughtException")
    /\ UNCHANGED <<inv, CALM_TOKENS, now, isShuttingDown>>

\* process.on('unhandledRejection'): a rejected promise nothing awaits
UnhandledRejection ==
    /\ process.state # "exited"
    /\ process' = exit(process, 1, "unhandledRejection")
    /\ UNCHANGED <<inv, CALM_TOKENS, now, isShuttingDown>>

(***************************************************************************)
(* Inputs.                                                                 *)
(***************************************************************************)
AmountInputs ==
    {Num(0 - 5), Num(0), Frac(0), Num(1), Frac(10), Num(50), Num(100), Frac(100),
     Num(101), Num(150), NaN, Infinity, NegInfinity, UndefinedNum, StringAsNum}

WalletInputs ==
    {UndefinedStr, NullStr, NumberAsStr, Str(<<>>), Str(<<" ">>), Str(<<" ", "\t">>),
     Str(<<"W", "1">>), Str(<<" ", "W">>)}

BidIdInputs ==
    {UndefinedStr, NullStr, NumberAsStr, Str(<<>>), Str(<<" ">>), Str(<<"\t", " ">>),
     Str(<<"b", "1">>), Str(<<"b", " ">>)}

LimitInputs ==
    {UndefinedNum, NaN, StringAsNum, Infinity, NegInfinity,
     Num(0 - 1), Num(0), Frac(0), Num(1), Frac(2), Num(20), Num(100), Frac(100),
     Num(101)}

Statuses == {200, 402, 404, 410, 420, 422, 429, 500}

Bodies ==
    ErrorBodies \cup QuoteBodies \cup BidBodies \cup InfoBodies \cup ClosedBodies
    \cup AllocatedBodies \cup CompletedBodies

(***************************************************************************)
(* Spec: the tool calls of one client, one after the other; the upstream   *)
(* answers any status with any body and issues no calm token.              *)
(***************************************************************************)
Next ==
    \/ CallGetAuctionInfo(1)
    \/ \E a \in AmountInputs, w \in WalletInputs : CallCreateBid(1, a, w)
    \/ \E b \in BidIdInputs : CallCheckBidStatus(1, b)
    \/ \E w \in WalletInputs : CallGetMyBid(1, w)
    \/ \E l \in LimitInputs : CallGetRecentBids(1, l)
    \/ CallUnknownTool(1)
    \/ \E st \in Statuses, d \in Bodies : AuctionInfoAnswered(1, st, d)
    \/ \E st \in Statuses, d \in Bodies : CreateBidInfoAnswered(1, st, d)
    \/ \E st \in Statuses, d \in Bodies : CreateBidAnswered(1, st, d)
    \/ \E st \in Statuses, d \in Bodies : CheckBidAnswered(1, st, d)
    \/ \E st \in Statuses, d \in Bodies : MyBidAnswered(1, st, d)
    \/ \E st \in Statuses, d \in Bodies : MyBidCheckAnswered(1, st, d)
    \/ \E st \in Statuses, d \in Bodies : RecentBidsAnswered(1, st, d)
    \/ \E m \in TransportMessages : FetchFails(1, m)
    \/ Respond(1)
    \/ MainConnected

Spec == Init /\ [][Next]_vars

(***************************************************************************)
(* SpecCalm: two clients whose calls overlap, the clock advances and the   *)
(* upstream answers 420 with a calm token.                                 *)
(***************************************************************************)
CalmWallets == {Str(<<"W", "1">>)}

CalmBidIds == {BidId1}

CalmStatuses == {200, 402, 420}

CalmAnswerBodies ==
    CalmBodies
    \cup { [EmptyBody EXCEPT !.bid_id = BidId1, !.pay_to = "R", !.expires_in = 30,
                             !.tonconnect_universal_link = "ton://transfer/R"] }
    \cup { [EmptyBody EXCEPT !.status = "pending", !.bid_id = BidId1] }

NextCalm ==
    \/ \E s \in Slots, b \in CalmBidIds : CallCheckBidStatus(s, b)
    \/ \E s \in Slots, w \in CalmWallets : CallGetMyBid(s, w)
    \/ \E s \in Slots, st \in CalmStatuses, d \in CalmAnswerBodies :
          CheckBidAnswered(s, st, d)
    \/ \E s \in Slots, st \in CalmStatuses, d \in CalmAnswerBodies :
          MyBidAnswered(s, st, d)
    \/ \E s \in Slots, st \in CalmStatuses, d \in CalmAnswerBodies :
          MyBidCheckAnswered(s, st, d)
    \/ \E s \in Slots : FetchFails(s, "fetch failed")
    \/ \E s \in Slots : Respond(s)
    \/ Tick
    \/ MainConnected

SpecCalm == Init /\ [][NextCalm]_vars

(***************************************************************************)
(* SpecDeeplink: the tool calls of one client against the earlier          *)
(* revisions of the handlers: those that generate the payment deeplink     *)
(* themselves and the one that returns the HTTP status as `status`.        *)
(***************************************************************************)
LinkAmounts == {Num(0), Num(1), Num(5), Num(150), NaN}

LinkWallets == {Str(<<>>), Str(<<"W", "1">>)}

LinkBidIds == {Str(<<>>), Str(<<"C">>), Str(<<"b", " ", "1">>)}

LinkStatuses == {200, 402, 404, 410}

AmountTexts ==
    {UndefinedStr, Str(<<"2", ".", "5">>), Str(<<"2", ".", "0", "1">>),
     Str(<<"1">>), Str(<<"1", "0", "0">>), Str(<<"0", ".", "5">>),
     Str(<<"4", ".", "3", "5">>), Str(<<"1", ".", "0", "0", "1">>)}

LongBidId == Str(<<"b", "i", "d", "-", "0", "1", "2", "3", "4", "5", "6", "7">>)

LinkBodies ==
    { [EmptyBody EXCEPT !.bid_id = b, !.pay_to = "R", !.ton_amount = a,
                        !.expires_in = 120] :
        b \in {Str(<<"C">>), Str(<<"b", " ", "1">>), LongBidId}, a \in AmountTexts }
    \cup { [EmptyBody EXCEPT !.status = "completed", !.bid_id = BidId1,
                             !.ton_amount = Str(<<"5">>)],
           [EmptyBody EXCEPT !.error = "auction_closed"] }

NextDeeplink ==
    \/ \E a \in LinkAmounts, w \in LinkWallets : CallCreateBidLink(1, a, w)
    \/ \E a \in LinkAmounts, w \in LinkWallets : CallCreateBidLabel(1, a, w)
    \/ \E b \in LinkBidIds : CallCheckBidLink(1, b)
    \/ CallGetAuctionInfoLink(1)
    \/ \E a \in LinkAmounts, w \in LinkWallets : CallCreateBidNumeric(1, a, w)
    \/ \E b \in LinkBidIds : CallCheckBidNumeric(1, b)
    \/ \E st \in LinkStatuses, d \in LinkBodies : CreateBidNumericAnswered(1, st, d)
    \/ \E st \in LinkStatuses, d \in LinkBodies : CheckBidNumericAnswered(1, st, d)
    \/ \E st \in LinkStatuses, d \in LinkBodies : AuctionInfoLinkAnswered(1, st, d)
    \/ \E st \in LinkStatuses, d \in LinkBodies : CreateBidLinkAnswered(1, st, d)
    \/ \E st \in LinkStatuses, d \in LinkBodies : CreateBidLabelAnswered(1, st, d)
    \/ \E st \in LinkStatuses, d \in LinkBodies : CheckBidLinkAnswered(1, st, d)
    \/ \E m \in TransportMessages : FetchFails(1, m)
    \/ Respond(1)
    \/ MainConnected

SpecDeeplink == Init /\ [][NextDeeplink]_vars

(***************************************************************************)
(* SpecProcess: two clients call the tools that send one request while    *)
(* signals arrive, faults happen and the start-up may fail.                *)
(***************************************************************************)
ProcessStatuses == {200, 404, 500}

ProcessBodies == InfoBodies \cup { EmptyBody }

NextProcess ==
    \/ MainConnected
    \/ MainFails
    \/ \E sig \in Signals : SignalArrives(sig)
    \/ SignalListener
    \/ UncaughtException
    \/ UnhandledRejection
    \/ \E s \in Slots : CallGetAuctionInfo(s)
    \/ \E s \in Slots, b \in CalmBidIds : CallCheckBidStatus(s, b)
    \/ \E s \in Slots, st \in ProcessStatuses, d \in ProcessBodies :
          AuctionInfoAnswered(s, st, d)
    \/ \E s \in Slots, st \in ProcessStatuses, d \in ProcessBodies :
          CheckBidAnswered(s, st, d)
    \/ \E s \in Slots, m \in TransportMessages : FetchFails(s, m)
    \/ \E s \in Slots : Respond(s)

SpecProcess == Init /\ [][NextProcess]_vars

\* the pending fetch of slot s settles: an answer arrives or the request fails
Settles(s) ==
    \/ \E st \in ProcessStatuses, d \in ProcessBodies : AuctionInfoAnswered(s, st, d)
    \/ \E st \in ProcessStatuses, d \in ProcessBodies : CheckBidAnswered(s, st, d)
    \/ \E m \in TransportMessages : FetchFails(s, m)

\* SpecProcess where the event loop keeps running: a connecting transport
\* connects or fails, every fetch settles and every result is sent
SpecProcessFair ==
    /\ SpecProcess
    /\ WF_vars(MainConnected \/ MainFails)
    /\ \A s \in Slots : WF_vars(Settles(s)) /\ WF_vars(Respond(s))

(***************************************************************************)
(* Properties.                                                             *)
(***************************************************************************)
Done(s) == inv[s].pc = "done"

LastAnswer(s) == inv[s].answers[Len(inv[s].answers)]

\* the last request of s was answered by the upstream with `status`
AnsweredWith(s, status) ==
    inv[s].answers # <<>> /\ ~LastAnswer(s).failed /\ LastAnswer(s).status = status

BidTools == {"create_auction_bid", "check_bid_status", "get_my_bid"}

Handlers == BidTools \cup {"get_auction_info", "get_recent_bids"}

ValidationMessages == {MsgAmountNumber, MsgAmountRange, MsgWallet, MsgBidId}

\* the handler threw before its first request
ValidationFailed(s) ==
    /\ Done(s) /\ inv[s].tool \in Handlers /\ inv[s].reqs = <<>>
    /\ inv[s].outcome.kind = "throw"

AllWhitespace(chars) == \A i \in 1..Len(chars) : chars[i] \in Whitespace

\* a finite number a with 1 <= a <= 100
AmountInContract(a) ==
    \/ a.t = "number" /\ 1 <= a.n /\ a.n <= 100
    \/ a.t = "frac" /\ 1 <= a.n /\ a.n < 100

AmountOutOfContract(a) == ~AmountInContract(a)

WalletBlank(w) == w.t = "string" /\ AllWhitespace(w.s)

\* C1: a create_auction_bid call whose amount is not a number, is NaN or lies
\* outside [1, 100], or whose wallet is empty or whitespace-only, fails with a
\* validation error and has issued no outbound request.
C1_InvalidBidIssuesNoRequest ==
    \A s \in Slots :
        (/\ inv[s].tool = "create_auction_bid"
         /\ (AmountOutOfContract(inv[s].args.amount) \/ WalletBlank(inv[s].args.wallet)))
        => /\ Done(s)
           /\ inv[s].reqs = <<>>
           /\ inv[s].outcome.kind = "throw"
           /\ inv[s].outcome.value.message \in ValidationMessages
           /\ inv[s].result.isError

C1_Witness ==
    \E s \in Slots :
        /\ inv[s].tool = "create_auction_bid"
        /\ inv[s].args.amount = Num(150)
        /\ Done(s) /\ inv[s].reqs = <<>> /\ inv[s].result.isError

BidRequestAnswered(s) ==
    /\ inv[s].tool = "create_auction_bid" /\ Done(s)
    /\ Len(inv[s].answers) = 2 /\ ~LastAnswer(s).failed

IsPaymentRequired(outcome) ==
    /\ outcome.kind = "return"
    /\ outcome.value.status = "payment_required"
    /\ outcome.value.action_required = "payment"

\* C3: create_auction_bid returns the payment-required outcome if and only if
\* the bid endpoint answered 402; a 200 answer yields an existing-bid outcome
\* whatever the embedded bid status is.
C3_PaymentRequiredIff402 ==
    \A s \in Slots :
        BidRequestAnswered(s)
        => /\ IsPaymentRequired(inv[s].outcome) <=> LastAnswer(s).status = PAYMENT_REQUIRED
           /\ (LastAnswer(s).status = OK /\ LastAnswer(s).data.status # Absent)
              => /\ inv[s].outcome.kind = "return"
                 /\ ~IsPaymentRequired(inv[s].outcome)

\* the answer that carries the bid record of a call of one of the bid tools
BidRecordAnswer(s) ==
    IF inv[s].tool = "get_my_bid" THEN inv[s].answers[1] ELSE LastAnswer(s)

HasBidRecord(s) ==
    /\ inv[s].tool \in BidTools /\ Done(s)
    /\ Len(inv[s].answers) = (IF inv[s].tool = "create_auction_bid" THEN 2 ELSE 1)
    /\ ~BidRecordAnswer(s).failed
    /\ BidRecordAnswer(s).status = OK

\* C4: for create_auction_bid, check_bid_status and get_my_bid a 200 answer
\* whose bid status is none of completed, allocated, refunded, expired, pending
\* is passed through as an outcome that carries the server's status value.
C4_UnknownStatusPassedThrough ==
    \A s \in Slots :
        (/\ HasBidRecord(s)
         /\ BidRecordAnswer(s).data.status \notin BidStatuses \cup {Absent})
        => /\ inv[s].outcome.kind = "return"
           /\ inv[s].outcome.value.status = BidRecordAnswer(s).data.status

\* C5: every refunded outcome of create_auction_bid, check_bid_status and
\* get_my_bid carries refund.transaction_fee_deducted = true.
C5_RefundedCarriesFeeNote ==
    \A s \in Slots :
        (/\ inv[s].tool \in BidTools /\ Done(s)
         /\ inv[s].outcome.kind = "return"
         /\ inv[s].outcome.value.status = "refunded")
        => /\ "refund" \in DOMAIN inv[s].outcome.value
           /\ inv[s].outcome.value.refund.transaction_fee_deducted

\* the api layer threw on an error answer of the upstream
UpstreamErrorThrown(s) ==
    /\ Done(s) /\ inv[s].answers # <<>> /\ ~LastAnswer(s).failed
    /\ inv[s].outcome.kind = "throw"
    /\ inv[s].outcome.value.code = LastAnswer(s).status

\* C6: every error the router surfaces for a local validation failure or an
\* upstream error answer carries error, message, code and retryable, and
\* retryable is true exactly when the upstream status is 429 or at least 500.
C6_RetryableIffUpstream429Or5xx ==
    \A s \in Slots :
        (ValidationFailed(s) \/ UpstreamErrorThrown(s))
        => /\ inv[s].result.isError
           /\ {"error", "message", "code", "retryable"} \subseteq DOMAIN inv[s].result.payload
           /\ inv[s].result.payload.retryable
              <=> /\ UpstreamErrorThrown(s)
                  /\ (LastAnswer(s).status = 429 \/ LastAnswer(s).status >= 500)

\* C7: a transport failure is surfaced as an outcome no upstream HTTP error
\* answer produces: its error field is UNKNOWN_ERROR and it has no details,
\* while an upstream answer of status 400 or more gives either a non-error
\* result or an error whose error field is the status and that has details.
C7_TransportFailureDistinct ==
    \A s \in Slots :
        (Done(s) /\ inv[s].answers # <<>>)
        => /\ LastAnswer(s).failed
              => /\ inv[s].result.isError
                 /\ inv[s].result.payload.error = "UNKNOWN_ERROR"
                 /\ "details" \notin DOMAIN inv[s].result.payload
           /\ (~LastAnswer(s).failed /\ LastAnswer(s).status >= 400 /\ inv[s].result.isError)
              => /\ inv[s].result.payload.error = ToString(LastAnswer(s).status)
                 /\ inv[s].result.payload.error # "UNKNOWN_ERROR"
                 /\ "details" \in DOMAIN inv[s].result.payload

C7_Witness ==
    \E s \in Slots :
        /\ Done(s) /\ inv[s].answers # <<>> /\ LastAnswer(s).failed
        /\ inv[s].result.isError /\ inv[s].result.payload.code = 500

\* C8 as stated: between accepting its arguments and returning, each of the
\* five handlers issues exactly one outbound request.
C8_Original ==
    \A s \in Slots :
        (Done(s) /\ inv[s].tool \in Handlers /\ inv[s].reqs # <<>>)
        => Len(inv[s].reqs) = 1

FirstAnswerIs200(s) ==
    inv[s].answers # <<>> /\ ~inv[s].answers[1].failed /\ inv[s].answers[1].status = OK

\* C8 amended: every invocation validates first (a failed validation issues no
\* request), then issues its requests one after the other, each answered
\* before the next is sent: exactly one for get_auction_info, check_bid_status
\* and get_recent_bids; for create_auction_bid the auction-info request and,
\* once that is answered 200, the bid request; for get_my_bid the my-bid
\* request and, once that is answered 200 with a pending bid, a request by bid
\* id.
C8_ValidateThenRequestsInSequence ==
    \A s \in Slots :
        /\ inv[s].pc = "await" => Len(inv[s].reqs) = Len(inv[s].answers) + 1
        /\ Done(s) => Len(inv[s].reqs) = Len(inv[s].answers)
        /\ (Done(s) /\ inv[s].reqs = <<>>)
           => /\ inv[s].outcome.kind = "throw"
              /\ inv[s].outcome.value.message \in ValidationMessages \cup {MsgUnknownTool}
        /\ (Done(s) /\ inv[s].reqs # <<>>
            /\ inv[s].tool \in {"get_auction_info", "check_bid_status", "get_recent_bids"})
           => Len(inv[s].reqs) = 1
        /\ (Done(s) /\ inv[s].reqs # <<>> /\ inv[s].tool = "create_auction_bid")
           => /\ inv[s].reqs[1].url = AuctionInfoUrl
              /\ Len(inv[s].reqs) = (IF FirstAnswerIs200(s) THEN 2 ELSE 1)
              /\ Len(inv[s].reqs) = 2 => inv[s].reqs[2].url.endpoint = AUCTION_BID
        /\ (Done(s) /\ inv[s].reqs # <<>> /\ inv[s].tool = "get_my_bid")
           => /\ inv[s].reqs[1].url.endpoint = AUCTION_MY_BID
              /\ Len(inv[s].reqs) =
                   (IF FirstAnswerIs200(s) /\ inv[s].answers[1].data.status = "pending"
                    THEN 2 ELSE 1)
              /\ Len(inv[s].reqs) = 2 => inv[s].reqs[2].url.endpoint = AUCTION_BID

C8_Witness ==
    \E s \in Slots :
        /\ Done(s) /\ inv[s].tool = "create_auction_bid"
        /\ Len(inv[s].reqs) = 2 /\ Len(inv[s].answers) = 2

\* C9: no request is retried: an invocation never issues a request it has
\* already issued, whatever the answer was (420, 429 and 5xx included) and
\* also after a transport failure.
C9_NoRequestIssuedTwice ==
    \A s \in Slots :
        \A i, j \in 1..Len(inv[s].reqs) :
            i # j => inv[s].reqs[i].url # inv[s].reqs[j].url

C9_Witness ==
    \E s \in Slots :
        /\ Done(s) /\ Len(inv[s].reqs) = 1
        /\ AnsweredWith(s, 429)
        /\ inv[s].result.isError /\ inv[s].result.payload.retryable

SameCall(s1, s2) ==
    /\ inv[s1].tool # "" /\ inv[s1].tool = inv[s2].tool
    /\ inv[s1].args = inv[s2].args

\* s1 and s2 have got the same answers to their first k requests
SameAnswers(s1, s2, k) ==
    /\ Len(inv[s1].answers) >= k /\ Len(inv[s2].answers) >= k
    /\ SubSeq(inv[s1].answers, 1, k) = SubSeq(inv[s2].answers, 1, k)

\* a returned value without the fields read from the clock
StripClock(v) ==
    IF "timestamp" \in DOMAIN v
    THEN [f \in DOMAIN v \ {"timestamp"} |->
            IF f = "bid" /\ v.status = "payment_required"
            THEN [g \in DOMAIN v.bid \ {"created_at"} |-> v.bid[g]]
            ELSE v[f]]
    ELSE v

\* C10 as stated: the requests an invocation issues (URL and headers) and its
\* result depend only on its arguments and on the answers to its own requests,
\* and nothing is stored between calls.
C10_Original ==
    /\ \A e \in Endpoints : CALM_TOKENS[e] = NoToken
    /\ \A s1, s2 \in Slots :
          SameCall(s1, s2)
          => \A k \in 1..2 :
                (/\ Len(inv[s1].reqs) >= k /\ Len(inv[s2].reqs) >= k
                 /\ SameAnswers(s1, s2, k - 1))
                => inv[s1].reqs[k] = inv[s2].reqs[k]

\* C10 amended: invocations interact through the calm-token map only.  The URL
\* of every request and the outcome (apart from the timestamps read from the
\* clock) depend only on the invocation's arguments and on the answers to its
\* own requests; the calm-token header is read from the process-wide map,
\* which is kept between calls and which a request carries only when an
\* answer of status 420 has stored a token for its endpoint.
C10_OnlyCalmHeaderShared ==
    /\ \A s1, s2 \in Slots :
          SameCall(s1, s2)
          => /\ \A k \in 1..2 :
                   (/\ Len(inv[s1].reqs) >= k /\ Len(inv[s2].reqs) >= k
                    /\ SameAnswers(s1, s2, k - 1))
                   => inv[s1].reqs[k].url = inv[s2].reqs[k].url
             /\ (/\ Done(s1) /\ Done(s2)
                 /\ inv[s1].answers = inv[s2].answers)
                => /\ inv[s1].outcome.kind = inv[s2].outcome.kind
                   /\ StripClock(inv[s1].outcome.value) = StripClock(inv[s2].outcome.value)
                   /\ inv[s1].result.isError = inv[s2].result.isError
    /\ \A s \in Slots : \A k \in 1..Len(inv[s].reqs) :
          inv[s].reqs[k].calm_token # Absent
          => CALM_TOKENS[inv[s].reqs[k].url.endpoint].token = inv[s].reqs[k].calm_token

C10_Witness ==
    \E s1, s2 \in Slots :
        /\ s1 # s2 /\ SameCall(s1, s2)
        /\ Done(s1) /\ Done(s2)
        /\ inv[s1].answers = inv[s2].answers
        /\ inv[s1].reqs[1].url = inv[s2].reqs[1].url
        /\ inv[s1].reqs[1].calm_token = Absent
        /\ inv[s2].reqs[1].calm_token # Absent

AmountMessages == {MsgAmountNumber, MsgAmountRange}

\* validateBidAmount threw in the create_auction_bid call of slot s
AmountRejected(s) ==
    /\ Done(s) /\ inv[s].reqs = <<>>
    /\ inv[s].outcome.kind = "throw"
    /\ inv[s].outcome.value.message \in AmountMessages

\* C14: validateBidAmount succeeds if and only if the amount is a finite
\* number a with 1 <= a <= 100: 1 and 100 are accepted, NaN and non-numbers
\* are rejected as not a valid number, infinities and numbers outside the
\* range as out of range.
C14_AmountAcceptedIffInRange ==
    \A s \in Slots :
        inv[s].tool = "create_auction_bid"
        => LET a == inv[s].args.amount
           IN  /\ AmountRejected(s) <=> ~AmountInContract(a)
               /\ a \in {Num(1), Num(100)} => ~AmountRejected(s)
               /\ (a.t \notin {"number", "frac", "inf", "ninf"})
                  => /\ AmountRejected(s)
                     /\ inv[s].outcome.value.message = MsgAmountNumber
               /\ (a.t \in {"inf", "ninf"})
                  => /\ AmountRejected(s)
                     /\ inv[s].outcome.value.message = MsgAmountRange

\* the upper bound is accepted: the call has gone on to its first request
C14_Witness ==
    \E s \in Slots :
        /\ inv[s].tool = "create_auction_bid"
        /\ inv[s].args.amount = Num(100)
        /\ ~AmountRejected(s)
        /\ inv[s].pc = "await" /\ Len(inv[s].reqs) = 1

\* the decimal text of an integer between 1 and 100
IsLimitText(chars) == \E n \in 1..MAX_BIDS_LIMIT : chars = FormatNat(n)

\* the limit the specification asks for: 20 when the argument is absent or
\* not a positive number, min(n, 100) otherwise
ExpectedLimit(l) ==
    IF l.t = "inf" THEN Num(MAX_BIDS_LIMIT)
    ELSE IF l.t \notin {"number", "frac"} \/ l.n < 1 THEN Num(DEFAULT_BIDS_LIMIT)
    ELSE IF NumGreater(l, MAX_BIDS_LIMIT) THEN Num(MAX_BIDS_LIMIT) ELSE l

\* C15: for every limit argument of get_recent_bids validateLimit does not
\* fail and the limit sent in the request is an integer between 1 and 100:
\* 20 when the argument is absent or not a positive number, min(n, 100)
\* otherwise.
C15_LimitSentIsIntegerInRange ==
    \A s \in Slots :
        inv[s].tool = "get_recent_bids"
        => /\ Len(inv[s].reqs) = 1
           /\ inv[s].reqs[1].url.endpoint = AUCTION_BIDS
           /\ inv[s].reqs[1].url.query[1][2] = FormatNumber(ExpectedLimit(inv[s].args.limit))
           /\ IsLimitText(inv[s].reqs[1].url.query[1][2])

\* C13: when the bid endpoint answers 410 to check_bid_status the handler
\* returns the outcome auction_closed, whose auction block carries the
\* final_price_ton and closed_at of the answer body unchanged.
C13_ClosedCarriesPriceAndTime ==
    \A s \in Slots :
        (/\ inv[s].tool = "check_bid_status" /\ Done(s)
         /\ Len(inv[s].answers) = 1 /\ AnsweredWith(s, GONE))
        => /\ inv[s].outcome.kind = "return"
           /\ ~inv[s].result.isError
           /\ inv[s].outcome.value.status = "auction_closed"
           /\ inv[s].outcome.value.auction.final_price_ton
                = LastAnswer(s).data.final_price_ton
           /\ inv[s].outcome.value.auction.closed_at = LastAnswer(s).data.closed_at

C13_Witness ==
    \E s \in Slots :
        /\ inv[s].tool = "check_bid_status" /\ Done(s) /\ AnsweredWith(s, GONE)
        /\ LastAnswer(s).data.final_price_ton = "0.52"
        /\ inv[s].outcome.kind = "return"
        /\ inv[s].outcome.value.auction.final_price_ton = "0.52"
        /\ inv[s].outcome.value.auction.closed_at = "2025-01-01T00:00:00Z"

\* the invocation of slot s has returned an outcome with a generated deeplink
HasDeeplink(s) ==
    /\ Done(s) /\ inv[s].outcome.kind = "return"
    /\ "ton_deeplink" \in DOMAIN inv[s].outcome.value

RECURSIVE TimesPow10(_, _)
TimesPow10(b, n) == IF n = 0 THEN b ELSE TimesPow10(StripZeros(MulSmall(b, 10, 0)), n - 1)

\* the decimal amount k / 10^d times 10^9, truncated toward zero, in exact
\* arithmetic, for d up to 9
ExactNano(dec) ==
    LET n == TimesPow10(NatOf(dec.k), 9 - dec.d)
    IN  IF n = <<>> THEN <<"0">> ELSE NatDigits(n)

\* C16: generateTonDeeplink embeds the decimal amount multiplied by 10^9 and
\* truncated toward zero; the deeplink built from "R", "2.5" and "C" embeds
\* 2500000000.
C16_DeeplinkEmbedsExactNanotons ==
    \A s \in Slots :
        (HasDeeplink(s) /\ LastAnswer(s).data.ton_amount.t = "string")
        => LET link == inv[s].outcome.value.ton_deeplink
               dec == ParseDecimal(LastAnswer(s).data.ton_amount.s)
           IN  /\ link.destination = LastAnswer(s).data.pay_to
               /\ link.amount = ExactNano(dec)

\* the part of C16 that the code keeps: the amounts whose product with 10^9
\* needs no rounding, "2.5" among them, are embedded exactly
C16_ExactForTwoAndAHalf ==
    \A s \in Slots :
        (HasDeeplink(s) /\ LastAnswer(s).data.ton_amount = Str(<<"2", ".", "5">>))
        => inv[s].outcome.value.ton_deeplink.amount
             = <<"2", "5", "0", "0", "0", "0", "0", "0", "0", "0">>

\* the invocation of slot s has returned a payment block
HasPaymentBlock(s) ==
    /\ Done(s) /\ inv[s].outcome.kind = "return"
    /\ "payment" \in DOMAIN inv[s].outcome.value
    /\ "comment_required" \in DOMAIN inv[s].outcome.value.payment

\* C17: in every payment-required outcome the payment comment is the bid id
\* of the quote: the comment_required field is the bid id, and the comment
\* embedded in a generated deeplink is the bid id (percent-encoded as the URL
\* requires).
C17_CommentIsBidId ==
    \A s \in Slots :
        /\ HasPaymentBlock(s)
           => inv[s].outcome.value.payment.comment_required = LastAnswer(s).data.bid_id
        /\ (HasDeeplink(s) /\ LastAnswer(s).status = PAYMENT_REQUIRED)
           => inv[s].outcome.value.ton_deeplink.text
                = encodeURIComponent(LastAnswer(s).data.bid_id)

\* slot s issues a request in this step
Issues(s) == Len(inv'[s].reqs) > Len(inv[s].reqs)

\* the request slot s issues in this step
Issued(s) == inv'[s].reqs[Len(inv'[s].reqs)]

\* the token stored for endpoint e has not expired
Fresh(e) == CALM_TOKENS[e] # NoToken /\ CALM_TOKENS[e].expiresAt > now

\* C11: in the calm-token revision a request carries a calm token only if the
\* token stored for its endpoint has an expiry strictly later than the clock
\* at the moment the request reads it: an expired token is never sent.
C11_ExpiredTokenNeverSent ==
    [][\A s \in Slots :
          (Issues(s) /\ Issued(s).calm_token # Absent)
          => /\ CALM_TOKENS[Issued(s).url.endpoint].token = Issued(s).calm_token
             /\ CALM_TOKENS[Issued(s).url.endpoint].expiresAt > now]_vars

\* a request was issued without a token although one was stored for its
\* endpoint: the token had expired when the request read it
C11_Witness ==
    \E s \in Slots : \E k \in 1..Len(inv[s].reqs) :
        /\ k <= Len(inv[s].reads)
        /\ inv[s].reqs[k].calm_token = Absent
        /\ CALM_TOKENS[inv[s].reqs[k].url.endpoint] # NoToken
        /\ CALM_TOKENS[inv[s].reqs[k].url.endpoint].expiresAt <= inv[s].reads[k]

\* slot s gets, in this step, a 420 answer with a calm token from endpoint e
RateLimitedBy(s, e) ==
    /\ Len(inv'[s].answers) > Len(inv[s].answers)
    /\ inv[s].reqs # <<>>
    /\ inv[s].reqs[Len(inv[s].reqs)].url.endpoint = e
    /\ LET a == inv'[s].answers[Len(inv'[s].answers)]
       IN  /\ ~a.failed /\ a.status = RATE_LIMITED /\ Truthy(a.data.calm_token)
           /\ CALM_TOKENS'[e].token = a.data.calm_token

\* C12: in the calm-token revision a token is stored for an endpoint only
\* when that endpoint answers 420 with a calm token, and a request issued
\* while the token stored for its endpoint has not expired carries that token;
\* a request to a different endpoint carries only what its own endpoint stored.
C12_TokenReplayedOnSameEndpoint ==
    [][/\ \A e \in Endpoints :
             CALM_TOKENS'[e] # CALM_TOKENS[e] => \E s \in Slots : RateLimitedBy(s, e)
       /\ \A s \in Slots :
             Issues(s)
             => LET e == Issued(s).url.endpoint
                IN  /\ Fresh(e) => Issued(s).calm_token = CALM_TOKENS[e].token
                    /\ CALM_TOKENS[e] = NoToken => Issued(s).calm_token = Absent]_vars

\* the bid endpoint has issued a token and a request to it carries the token,
\* while a request to the my-bid endpoint, issued no earlier, carries none
C12_Witness ==
    \E s1, s2 \in Slots :
        /\ inv[s1].pc = "await" /\ inv[s2].pc = "await"
        /\ Len(inv[s1].reqs) = 1 /\ Len(inv[s2].reqs) = 1
        /\ inv[s1].reqs[1].url.endpoint = AUCTION_BID
        /\ inv[s1].reqs[1].calm_token = CALM_TOKENS[AUCTION_BID].token
        /\ inv[s1].reqs[1].calm_token # Absent
        /\ inv[s2].reqs[1].url.endpoint = AUCTION_MY_BID
        /\ inv[s2].reqs[1].calm_token = Absent
        /\ inv[s2].reads[1] >= inv[s1].reads[1]
        /\ CALM_TOKENS[AUCTION_MY_BID] = NoToken


\* the invocation of slot s has returned the allocated outcome of
\* create_auction_bid or of get_my_bid
AllocatedOutcome(s) ==
    /\ HasBidRecord(s) /\ inv[s].tool \in {"create_auction_bid", "get_my_bid"}
    /\ BidRecordAnswer(s).data.status = "allocated"
    /\ inv[s].outcome.kind = "return"

\* the refund text names a decimal amount greater than 0
RefundPositive(refund_ton) ==
    /\ refund_ton.t = "string"
    /\ LET dec == ParseDecimal(TrimStart(refund_ton.s)) IN dec.ok /\ dec.k > 0

\* C18: in every allocated outcome of create_auction_bid and get_my_bid,
\* oversubscribed is true exactly when the refund amount is greater than 0 and
\* full_allocation is its negation; a refund of "0" or an absent refund gives
\* oversubscribed = false and full_allocation = true.
C18_OversubscribedIffRefund ==
    \A s \in Slots :
        AllocatedOutcome(s)
        => LET allocation == inv[s].outcome.value.allocation
               refund == BidRecordAnswer(s).data.refund_ton
           IN  /\ allocation.oversubscribed <=> RefundPositive(refund)
               /\ allocation.full_allocation <=> ~allocation.oversubscribed
               /\ (refund = UndefinedStr \/ refund = Str(<<"0">>))
                  => ~allocation.oversubscribed /\ allocation.full_allocation

C18_Witness ==
    \E s \in Slots :
        /\ AllocatedOutcome(s)
        /\ BidRecordAnswer(s).data.refund_ton = Str(<<"0">>)
        /\ inv[s].outcome.value.allocation.full_allocation


\* the invocation of slot s has returned the completed outcome of
\* create_auction_bid
CompletedOutcome(s) ==
    /\ HasBidRecord(s) /\ inv[s].tool = "create_auction_bid"
    /\ LastAnswer(s).data.status = "completed"
    /\ inv[s].outcome.kind = "return"

\* the decimal amount of the text a is greater than that of the text b
\* (both with at most 9 decimals), in exact arithmetic
DecimalGreater(a, b) ==
    /\ a.t = "string" /\ b.t = "string"
    /\ LET x == ParseDecimal(TrimStart(a.s))
           y == ParseDecimal(TrimStart(b.s))
       IN  /\ x.ok /\ y.ok
           /\ NatGreater(TimesPow10(NatOf(x.k), 9 - x.d),
                         TimesPow10(NatOf(y.k), 9 - y.d))

\* C19: in every completed existing-bid outcome of create_auction_bid,
\* price_comparison.favorable is true exactly when the current auction price
\* is strictly greater than the price locked by the bid, and
\* price_comparison.locked_price is the bid's locked price.
C19_FavorableIffCurrentAboveLocked ==
    \A s \in Slots :
        CompletedOutcome(s)
        => LET comparison == inv[s].outcome.value.price_comparison
               current == inv[s].answers[1].data.current_price_ton
               locked == LastAnswer(s).data.bid_price_ton
           IN  /\ comparison.locked_price = locked
               /\ comparison.favorable <=> DecimalGreater(current, locked)

\* the part of C19 that the code keeps: the comparison of a completed bid
\* that names its price
C19_FavorableWhenPriced ==
    \A s \in Slots :
        (/\ CompletedOutcome(s)
         /\ LastAnswer(s).data.bid_price_ton.t = "string"
         /\ LastAnswer(s).data.bid_price_ton.s # <<>>)
        => LET comparison == inv[s].outcome.value.price_comparison
               current == inv[s].answers[1].data.current_price_ton
               locked == LastAnswer(s).data.bid_price_ton
           IN  /\ comparison.locked_price = locked
               /\ comparison.favorable <=> DecimalGreater(current, locked)


\* the invocation of slot s has returned an outcome with a live payment
\* countdown: create_auction_bid or check_bid_status answered 402, or
\* get_my_bid found a pending bid whose lookup by id answered 402 with the
\* payment instructions
CountdownOutcome(s) ==
    /\ Done(s) /\ inv[s].outcome.kind = "return"
    /\ AnsweredWith(s, PAYMENT_REQUIRED)
    /\ LastAnswer(s).data.expires_in # AbsentNum
    /\ \/ inv[s].tool = "create_auction_bid" /\ Len(inv[s].answers) = 2
       \/ inv[s].tool = "check_bid_status" /\ Len(inv[s].answers) = 1
       \/ /\ inv[s].tool = "get_my_bid" /\ Len(inv[s].answers) = 2
          /\ inv[s].answers[1].data.status = "pending"
          /\ Truthy(LastAnswer(s).data.pay_to)

\* C20: in every outcome that carries a live payment countdown
\* (create_auction_bid on 402, check_bid_status on 402, get_my_bid on a
\* pending bid), urgency is a function of the remaining seconds alone:
\* critical below 60, high from 60 to below 300, normal from 300 on.
C20_UrgencyFromRemainingSeconds ==
    \A s \in Slots :
        CountdownOutcome(s)
        => LET seconds == LastAnswer(s).data.expires_in
               value == inv[s].outcome.value
           IN  /\ "urgency" \in DOMAIN value
               /\ value.urgency = (IF seconds < 60 THEN "critical"
                                   ELSE IF seconds < 300 THEN "high"
                                   ELSE "normal")

C20_Witness ==
    \E s \in Slots :
        /\ CountdownOutcome(s) /\ inv[s].tool = "get_my_bid"
        /\ LastAnswer(s).data.expires_in = 60
        /\ inv[s].outcome.value.urgency = "high"


\* the process has exited because of `cause`
ExitedBy(causes) == process.state = "exited" /\ process.cause \in causes

\* C21: the process exits with code 0 when it terminates because of a SIGINT
\* or a SIGTERM, and with a non-zero code when it terminates because of an
\* uncaught exception, an unhandled rejection or a failed start-up; the
\* shutdown routine runs at most once however many signals arrive.
C21_ExitCodes ==
    /\ ExitedBy(Signals) => process.exitCode = 0
    /\ ExitedBy({"uncaughtException", "unhandledRejection", "main"})
       => process.exitCode # 0 /\ process.exitCode # AbsentNum
    /\ process.state = "exited"
       => process.cause \in Signals \cup {"uncaughtException", "unhandledRejection", "main"}
    /\ process.shutdowns <= 1
    /\ process.shutdowns = 1 <=> ExitedBy(Signals)

\* a second signal was waiting when the listener of the first one shut the
\* process down
C21_Witness ==
    /\ ExitedBy(Signals) /\ process.exitCode = 0
    /\ process.signals # <<>> /\ process.shutdowns = 1


\* get_auction_info has ended after the info endpoint answered its request
InfoAnswered(s) ==
    /\ Done(s) /\ inv[s].tool = "get_auction_info"
    /\ Len(inv[s].answers) = 1 /\ ~LastAnswer(s).failed

\* C23: get_auction_info returns the answer body unchanged when the info
\* endpoint answers 200; fails with error kind 'no_auction' when it answers
\* 404, whatever the body contains; and fails with an upstream error carrying
\* the answered status as its code for every other status.
C23_InfoOutcomeByStatus ==
    \A s \in Slots :
        InfoAnswered(s)
        => LET answer == LastAnswer(s)
               outcome == inv[s].outcome
           IN  /\ answer.status = OK => outcome = Return(answer.data)
               /\ answer.status = NOT_FOUND
                  => outcome.kind = "throw" /\ outcome.value.error = "no_auction"
               /\ answer.status \notin {OK, NOT_FOUND}
                  => outcome.kind = "throw" /\ outcome.value.code = answer.status


\* a string with a character that trimming keeps
NonEmptyAfterTrim(v) ==
    v.t = "string" /\ \E i \in 1..Len(v.s) : v.s[i] \notin Whitespace

\* the handler of slot s threw the validation error `message` before any
\* request
RejectedWith(s, message) ==
    ValidationFailed(s) /\ inv[s].outcome.value.message = message

\* C24: validateWallet and validateBidId apply the same shape check: each
\* fails with a validation error unless its argument is a string that is
\* non-empty after trimming (empty, whitespace-only, null and non-string
\* values are rejected; every other string is accepted).
C24_SameShapeCheck ==
    \A s \in Slots :
        Done(s)
        => /\ inv[s].tool = "get_my_bid"
              => (RejectedWith(s, MsgWallet) <=> ~NonEmptyAfterTrim(inv[s].args.wallet))
           /\ (inv[s].tool = "create_auction_bid" /\ AmountInContract(inv[s].args.amount))
              => (RejectedWith(s, MsgWallet) <=> ~NonEmptyAfterTrim(inv[s].args.wallet))
           /\ inv[s].tool = "check_bid_status"
              => (RejectedWith(s, MsgBidId) <=> ~NonEmptyAfterTrim(inv[s].args.bid_id))
           /\ inv[s].tool \in {"get_my_bid", "check_bid_status"}
              => (ValidationFailed(s) <=> inv[s].reqs = <<>>)

C24_Witness ==
    \E s \in Slots :
        /\ inv[s].tool = "check_bid_status"
        /\ inv[s].args.bid_id = Str(<<"\t", " ">>)
        /\ RejectedWith(s, MsgBidId)


\* the handler of the numeric-status revision in slot s returns in this step
NumericReturns(s) ==
    /\ inv[s].stage \in {"numeric_bid", "numeric_check"}
    /\ inv'[s].pc = "done" /\ inv'[s].outcome.kind = "return"

\* the message that handler sets for an answer with `status`
FixedMessage(tool, status) ==
    IF tool = "create_auction_bid" THEN MsgPaymentRequired
    ELSE IF status = PAYMENT_REQUIRED THEN MsgPaymentPending
    ELSE IF status = GONE THEN MsgAuctionClosed
    ELSE Absent

\* C25: in the numeric-status revision of the handlers, the object returned
\* by handleCreateBid and handleCheckBidById has a status field equal to the
\* HTTP status of the upstream answer (402, 410 or 200), a message field equal
\* to the handler's fixed message when one is set, and every other field of
\* the answer body passed through unchanged.
C25_StatusIsHttpStatus ==
    [][\A s \in Slots :
          NumericReturns(s)
          => LET answer == inv'[s].answers[Len(inv'[s].answers)]
                 value == inv'[s].outcome.value
                 fixed == FixedMessage(inv[s].tool, answer.status)
             IN  /\ value.status = ToString(answer.status)
                 /\ fixed # Absent => value.message = fixed
                 /\ \A f \in DOMAIN answer.data \ {"status", "message"} :
                       value[f] = answer.data[f]]_vars

\* the part of C25 that the code keeps: the message and the other fields,
\* and the status when the body has none and the answer is not a 200 to
\* create_auction_bid
C25_StatusUnlessBodyHasOne ==
    [][\A s \in Slots :
          NumericReturns(s)
          => LET answer == inv'[s].answers[Len(inv'[s].answers)]
                 value == inv'[s].outcome.value
                 fixed == FixedMessage(inv[s].tool, answer.status)
             IN  /\ value.status = (IF answer.data.status # Absent THEN answer.data.status
                                    ELSE IF inv[s].tool = "create_auction_bid"
                                    THEN ToString(PAYMENT_REQUIRED)
                                    ELSE ToString(answer.status))
                 /\ fixed # Absent => value.message = fixed
                 /\ \A f \in DOMAIN answer.data \ {"status", "message"} :
                       value[f] = answer.data[f]]_vars


HintedKinds ==
    {"no_auction", "no_active_auction", "auction_closed", "invalid_amount",
     "bid_not_found"}

HintOf(kind) ==
    IF kind = "invalid_amount" THEN "adjust_amount"
    ELSE IF kind = "bid_not_found" THEN "verify_bid_id"
    ELSE "check_auction_status"

\* the API layer threw an error of one of the hinted kinds in slot s
ThrewHintedKind(s) ==
    /\ Done(s) /\ inv[s].outcome.kind = "throw"
    /\ inv[s].answers # <<>> /\ ~LastAnswer(s).failed
    /\ inv[s].outcome.value.error \in HintedKinds

\* C26: for every error thrown by the API layer with error kind no_auction,
\* no_active_auction, auction_closed, invalid_amount or bid_not_found, the
\* error result built by formatError has that kind as its error field and
\* carries the matching action hint: check_auction_status for the first
\* three, adjust_amount for invalid_amount, verify_bid_id for bid_not_found.
C26_KindAndHintInErrorResult ==
    \A s \in Slots :
        ThrewHintedKind(s)
        => LET payload == inv[s].result.payload
           IN  /\ inv[s].result.isError
               /\ payload.error = inv[s].outcome.value.error
               /\ "action_required" \in DOMAIN payload
               /\ payload.action_required = HintOf(inv[s].outcome.value.error)

\* what formatError builds from those errors: the answered status as the
\* error field and no action hint
C26_StatusAsErrorAndNoHint ==
    \A s \in Slots :
        ThrewHintedKind(s)
        => LET payload == inv[s].result.payload
           IN  /\ inv[s].result.isError
               /\ payload.error = ToString(LastAnswer(s).status)
               /\ "action_required" \notin DOMAIN payload


\* one of the three bid handlers has returned an outcome in slot s
BidOutcome(s) ==
    /\ Done(s) /\ inv[s].tool \in BidTools /\ inv[s].outcome.kind = "return"

\* the outcome carries payment instructions: a payment block with
\* required = true, a recipient and a deeplink, an urgency and the next step
\* send_payment
PaymentInstructions(value) ==
    /\ "payment" \in DOMAIN value
    /\ "required" \in DOMAIN value.payment /\ value.payment.required
    /\ Truthy(value.payment.recipient) /\ Truthy(value.payment.deeplink)
    /\ "urgency" \in DOMAIN value
    /\ "next_step" \in DOMAIN value /\ value.next_step = "send_payment"

\* C27: in every outcome returned by handleCreateBid, handleCheckBidById and
\* handleGetMyBid, action_required = 'payment' holds exactly when the outcome
\* carries a payment block with required = true, a recipient and a deeplink,
\* together with an urgency and next_step = 'send_payment'.
C27_PaymentActionIffInstructions ==
    \A s \in Slots :
        BidOutcome(s)
        => LET value == inv[s].outcome.value
           IN  value.action_required = "payment" <=> PaymentInstructions(value)

\* the direction of C27 that the code keeps: an outcome with payment
\* instructions has action_required = 'payment'
C27_InstructionsImplyPaymentAction ==
    \A s \in Slots :
        (BidOutcome(s) /\ PaymentInstructions(inv[s].outcome.value))
        => inv[s].outcome.value.action_required = "payment"


\* get_my_bid has ended after its wallet lookup reported a pending bid and
\* the lookup by bid id was answered or failed
PendingBidLookedUp(s) ==
    /\ Done(s) /\ inv[s].tool = "get_my_bid" /\ Len(inv[s].answers) = 2
    /\ inv[s].answers[1].status = OK /\ inv[s].answers[1].data.status = "pending"

\* C28: when the wallet lookup of get_my_bid reports a bid in pending state,
\* the result always has action_required = 'payment' and payment
\* instructions, whatever the follow-up lookup by bid id answers (402, 200
\* after the bid changed state in between, 410, or an error).
C28_PendingAlwaysPaymentInstructions ==
    \A s \in Slots :
        PendingBidLookedUp(s)
        => /\ inv[s].outcome.kind = "return"
           /\ inv[s].outcome.value.action_required = "payment"
           /\ PaymentInstructions(inv[s].outcome.value)

\* what handleGetMyBid does with the follow-up answer: payment instructions
\* for a 402 that names the recipient, the error of the lookup when
\* checkBidById throws, and otherwise the bid of the wallet lookup with
\* action_required = 'unknown' and no payment block
C28_PendingByFollowUp ==
    \A s \in Slots :
        PendingBidLookedUp(s)
        => LET answer == LastAnswer(s)
               outcome == inv[s].outcome
           IN  IF answer.failed \/ answer.status \notin {OK, PAYMENT_REQUIRED, GONE}
               THEN outcome.kind = "throw"
               ELSE IF answer.status = PAYMENT_REQUIRED /\ Truthy(answer.data.pay_to)
               THEN /\ outcome.kind = "return"
                    /\ outcome.value.action_required = "payment"
                    /\ "payment" \in DOMAIN outcome.value
                    /\ outcome.value.payment.recipient = answer.data.pay_to
               ELSE /\ outcome.kind = "return"
                    /\ outcome.value.action_required = "unknown"
                    /\ outcome.value.status = "pending"
                    /\ "payment" \notin DOMAIN outcome.value


\* C29: create_auction_bid sends the bid request only after the auction-info
\* request has been answered with 200: when the info request fails (404,
\* another error status, or a transport failure) no bid request is sent, and
\* the error returned is the one of the info request.
C29_BidRequestOnlyAfterInfo200 ==
    \A s \in Slots :
        inv[s].tool = "create_auction_bid"
        => /\ Len(inv[s].reqs) <= 2
           /\ inv[s].reqs # <<>> => inv[s].reqs[1].url.endpoint = AUCTION_INFO
           /\ Len(inv[s].reqs) = 2
              => /\ inv[s].reqs[2].url.endpoint = AUCTION_BID
                 /\ ~inv[s].answers[1].failed /\ inv[s].answers[1].status = OK
           /\ (Done(s) /\ Len(inv[s].answers) = 1)
              => LET answer == inv[s].answers[1]
                 IN  /\ Len(inv[s].reqs) = 1
                     /\ answer.failed \/ answer.status # OK
                     /\ inv[s].outcome =
                           (IF answer.failed THEN Throw(TransportError(answer.reason))
                            ELSE getAuctionInfo(answer.status, answer.data))
                     /\ inv[s].outcome.kind = "throw"
                     /\ inv[s].result.isError

C29_Witness ==
    \E s \in Slots :
        /\ inv[s].tool = "create_auction_bid" /\ Done(s)
        /\ Len(inv[s].reqs) = 1 /\ AnsweredWith(s, NOT_FOUND)
        /\ inv[s].outcome.kind = "throw" /\ inv[s].outcome.value.error = "no_auction"


\* the call of slot s failed locally: a validator threw, or the router knows
\* no tool of that name
FailedLocally(s) ==
    \/ ValidationFailed(s)
    \/ /\ Done(s) /\ inv[s].tool = "unknown_tool" /\ inv[s].outcome.kind = "throw"

\* C30: a local validation failure (invalid amount, wallet or bid id) and an
\* unknown tool name are surfaced by formatError with retryable = false,
\* since re-invoking with the same arguments cannot succeed.
C30_LocalFailureNotRetryable ==
    \A s \in Slots :
        FailedLocally(s)
        => inv[s].result.isError /\ ~inv[s].result.payload.retryable

\* what formatError builds from an Error without code or status: code 500,
\* the error field UNKNOWN_ERROR and retryable = true
C30_LocalFailureSurfacedAs500 ==
    \A s \in Slots :
        FailedLocally(s)
        => /\ inv[s].result.isError
           /\ inv[s].result.payload.code = 500
           /\ inv[s].result.payload.error = "UNKNOWN_ERROR"
           /\ inv[s].result.payload.retryable
           /\ inv[s].result.payload.message = inv[s].outcome.value.message
           /\ inv[s].reqs = <<>>


\* the last request of the call in slot s has failed in the transport
TransportFailed(s) ==
    /\ Done(s) /\ inv[s].answers # <<>> /\ LastAnswer(s).failed

\* C22: a transport failure during one tool call is fatal to that call only:
\* the router answers that call with an error result, the process does not
\* exit, and every later tool call is still dispatched and answered.  The
\* step of the failure leaves the process, the stored tokens and the other
\* calls as they were; unless a signal or a fault ends the process, the failed
\* call is answered and its slot is free again, and every dispatched call is
\* answered.
C22_TransportFailureFatalToCallOnly ==
    /\ [][\A s \in Slots :
             (inv[s].pc = "await" /\ TransportFailed(s)')
             => /\ inv'[s].result.isError
                /\ inv'[s].result.payload.message = inv'[s].answers[Len(inv'[s].answers)].reason
                /\ process' = process /\ process.state = "running"
                /\ UNCHANGED <<CALM_TOKENS, isShuttingDown>>
                /\ \A t \in Slots \ {s} : inv'[t] = inv[t]]_vars
    /\ \A s \in Slots :
          TransportFailed(s) ~> (inv[s] = Idle \/ process.state = "exited")
    /\ \A s \in Slots :
          (inv[s].pc = "await") ~> (Done(s) \/ process.state = "exited")
    /\ [](\A s \in Slots :
            (Running /\ inv[s].pc = "idle") => ENABLED CallGetAuctionInfo(s))

\* one call has failed in the transport and is answered with an error while
\* the call of the other client has been answered with the auction info
C22_Witness ==
    \E s, t \in Slots :
        /\ TransportFailed(s) /\ inv[s].result.isError
        /\ Running
        /\ Done(t) /\ AnsweredWith(t, OK) /\ ~inv[t].result.isError

====
